---- MODULE Spec2Model ----
(***************************************************************************)
(* Model of the frame-level transcoding pipeline of web-video-editor       *)
(* (lib/webcodecs-converter): the orchestrator convertFileWithWebCodecs    *)
(* and the pipelines convertVideo, convertAudio and convertImage, together *)
(* with the host services they drive (media element, encoder, timers,      *)
(* promises).  One conversion call is modelled from its invocation to the  *)
(* terminal signal its caller receives.                                    *)
(***************************************************************************)
EXTENDS Integers, Sequences, FiniteSets, TLC

(***************************************************************************)
(* Bounds of the model.                                                    *)
(***************************************************************************)
\* longest source video, in twentieths of a second
MaxDuration == 2
\* largest byte length of one encoded chunk
MaxChunkLen == 2
\* most whole 1024-sample blocks in a decoded audio buffer
MaxBlocks == 2
\* largest channel count of a decoded audio buffer
MaxChannels == 2
\* the largest side of the small frames the resolver is applied to
MaxSide == 3
\* the longest bitrate string the resolver is applied to
MaxBitrateLen == 4

(***************************************************************************)
(* Program constants.                                                      *)
(***************************************************************************)
\* const frameRate = 30
frameRate == 30
\* const frameSize = 1024 (samples per audio block)
frameSize == 1024

\* the values JavaScript treats as "absent" for an optional string
NoFormat == ""

Last(s) == s[Len(s)]

RECURSIVE Flatten(_)
\* the byte content of new Blob(parts): the parts back to back
Flatten(parts) ==
    IF parts = <<>> THEN <<>> ELSE Head(parts) \o Flatten(Tail(parts))

RECURSIVE SumLen(_)
SumLen(parts) ==
    IF parts = <<>> THEN 0 ELSE Len(Head(parts)) + SumLen(Tail(parts))

RECURSIVE SplitAt(_, _)
\* cut a byte string into pieces of the given lengths
SplitAt(bytes, lens) ==
    IF lens = <<>> THEN <<>>
    ELSE <<SubSeq(bytes, 1, Head(lens))>>
         \o SplitAt(SubSeq(bytes, Head(lens) + 1, Len(bytes)), Tail(lens))


(***************************************************************************)
(* Inputs.  A MIME type "video/mp4" is the pair <<"video", "mp4">> and the *)
(* empty type is <<>>; a file name is the sequence of its parts between    *)
(* dots, so "clip.mp4" is <<"clip", "mp4">> and "README" is <<"README">>.  *)
(* An optional property is present exactly when it is in the DOMAIN.     *)
(***************************************************************************)
Has(r, f) == f \in DOMAIN r

WindowApis == {"VideoDecoder", "VideoEncoder", "AudioDecoder", "AudioEncoder"}

InputFiles ==
    { [isFile |-> TRUE,  name |-> <<"clip", "mp4">>,  type |-> <<"video", "mp4">>,  size |-> 9],
      [isFile |-> TRUE,  name |-> <<"song", "mp3">>,  type |-> <<"audio", "mpeg">>, size |-> 7],
      [isFile |-> TRUE,  name |-> <<"pic", "png">>,   type |-> <<"image", "png">>,  size |-> 5],
      [isFile |-> TRUE,  name |-> <<"movie", "MOV">>, type |-> <<>>,                size |-> 8],
      [isFile |-> TRUE,  name |-> <<"README">>,       type |-> <<>>,                size |-> 3],
      [isFile |-> FALSE, name |-> <<>>,               type |-> <<"audio", "wav">>,  size |-> 6] }

PartialConfigs ==
    { <<>>,
      [video |-> [resolution |-> "720p", quality |-> "high"]],
      [audio |-> [format |-> "aac", bitrate |-> <<"1", "2", "8", "k">>]],
      [image |-> [width |-> 100, height |-> 50, quality |-> 50]] }

AllOptions ==
    { [inputFile |-> f] : f \in InputFiles }
    \cup { [inputFile |-> f, targetFormat |-> "webm"] : f \in InputFiles }
    \cup { [inputFile |-> f, config |-> c] : f \in InputFiles, c \in PartialConfigs }
    \cup { [inputFile |-> f, autoDetect |-> FALSE] : f \in InputFiles }

\* String.prototype.toLowerCase on the name parts the inputs use
toLowerCase(s) ==
    CASE s = "MOV" -> "mov"
      [] s = "README" -> "readme"
      [] OTHER -> s

\* the fixed per-kind defaults
DEFAULT_CONFIG ==
    [video |-> [format |-> "mp4", resolution |-> "original",
                quality |-> "medium", codec |-> "h264"],
     audio |-> [format |-> "mp3", bitrate |-> <<"2", "5", "6", "k">>, sampleRate |-> 44100],
     image |-> [format |-> "jpeg", quality |-> 85]]

\* object spread { ...base, ...over }: every property of over wins
Spread(base, over) ==
    [f \in (DOMAIN base) \cup (DOMAIN over) |->
        IF f \in DOMAIN over THEN over[f] ELSE base[f]]

\* config.<kind>, which is undefined (spreads to nothing) when absent
KindConfig(config, kind) == IF Has(config, kind) THEN config[kind] ELSE <<>>

\* a merge that takes the caller's settings of a kind whole
MergeConfigShallow(config) ==
    [video |-> IF Has(config, "video") THEN config.video ELSE DEFAULT_CONFIG.video,
     audio |-> IF Has(config, "audio") THEN config.audio ELSE DEFAULT_CONFIG.audio,
     image |-> IF Has(config, "image") THEN config.image ELSE DEFAULT_CONFIG.image]

\* const mergedConfig = { video: {...}, audio: {...}, image: {...} }
MergeConfig(config) ==
    [video |-> Spread(DEFAULT_CONFIG.video, KindConfig(config, "video")),
     audio |-> Spread(DEFAULT_CONFIG.audio, KindConfig(config, "audio")),
     image |-> Spread(DEFAULT_CONFIG.image, KindConfig(config, "image"))]

\* a probe that only looks at the video primitives
isWebCodecsSupportedVideoOnly(win) ==
    /\ "VideoDecoder" \in win
    /\ "VideoEncoder" \in win

isWebCodecsSupported(win) ==
    /\ "VideoDecoder" \in win
    /\ "VideoEncoder" \in win
    /\ "AudioDecoder" \in win
    /\ "AudioEncoder" \in win

\* mimeType.startsWith(major + "/")
StartsWithMajor(mime, major) == Len(mime) >= 2 /\ mime[1] = major

\* a detection that trusts the MIME type and takes anything untyped as video
detectFileTypeByMajor(file) ==
    IF file.type = <<>> THEN "video" ELSE file.type[1]

detectFileType(file) ==
    LET mimeType == file.type
        \* file.name.split('.').pop()?.toLowerCase() || ''
        extension == IF file.isFile /\ file.name # <<>>
                     THEN toLowerCase(Last(file.name)) ELSE ""
        videoExts == {"mp4", "webm", "avi", "mov", "mkv", "flv"}
        audioExts == {"mp3", "wav", "aac", "ogg", "flac", "m4a"}
        imageExts == {"jpg", "jpeg", "png", "gif", "webp", "bmp"}
    IN  IF file.isFile /\ mimeType = <<>> /\ extension # "" /\ extension \in videoExts
        THEN "video"
        ELSE IF file.isFile /\ mimeType = <<>> /\ extension # "" /\ extension \in audioExts
        THEN "audio"
        ELSE IF file.isFile /\ mimeType = <<>> /\ extension # "" /\ extension \in imageExts
        THEN "image"
        ELSE IF StartsWithMajor(mimeType, "video") THEN "video"
        ELSE IF StartsWithMajor(mimeType, "audio") THEN "audio"
        ELSE IF StartsWithMajor(mimeType, "image") THEN "image"
        ELSE "unknown"

\* a file name that keeps the old extension
generateOutputFilenameAppend(inputFile, targetFormat) ==
    Append(IF inputFile.isFile THEN inputFile.name ELSE <<"converted_file">>,
           targetFormat)

\* originalName.replace(/\.[^/.]+$/, '') followed by "." + targetFormat
generateOutputFilename(inputFile, targetFormat) ==
    LET originalName == IF inputFile.isFile THEN inputFile.name ELSE <<"converted_file">>
        nameWithoutExt == IF Len(originalName) >= 2 /\ Last(originalName) # ""
                          THEN SubSeq(originalName, 1, Len(originalName) - 1)
                          ELSE originalName
    IN  Append(nameWithoutExt, targetFormat)

getVideoCodec(codec) ==
    CASE codec = "h264" -> "avc1.42E01E"
      [] codec = "h265" -> "hev1.1.6.L93.B0"
      [] codec = "vp9"  -> "vp09.00.10.08"
      [] OTHER -> "avc1.42E01E"

\* a table that hands an unknown name through
getAudioCodecPassThrough(format) ==
    CASE format = "mp3" -> "mp3"
      [] format = "aac" -> "mp4a.40.2"
      [] format = "ogg" -> "vorbis"
      [] format = "wav" -> "pcm"
      [] OTHER -> format

\* codecMap[format] || codecMap['aac']
getAudioCodec(format) ==
    CASE format = "mp3" -> "mp3"
      [] format = "aac" -> "mp4a.40.2"
      [] format = "ogg" -> "vorbis"
      [] format = "wav" -> "pcm"
      [] OTHER -> "mp4a.40.2"

\* Math.round(p / q) for p >= 0, q > 0: halves round up
RoundDiv(p, q) == (2 * p + q) \div (2 * q)

\* a bitrate that ignores the quality tier
getBitrateFlat(quality, width, height) ==
    RoundDiv(width * height * 2 * 30, 10 * 1000) * 1000

\* quality factors in tenths: low 0.1, medium 0.2, high 0.4
getBitrate(quality, width, height) ==
    LET pixels == width * height
        factor == CASE quality = "low" -> 1
                    [] quality = "medium" -> 2
                    [] quality = "high" -> 4
                    [] OTHER -> 2
    IN  RoundDiv(pixels * factor * 30, 10 * 1000) * 1000

\* A bitrate string is the sequence of its characters: "128k" is
\* <<"1", "2", "8", "k">>.
Digits == {"0", "1", "2", "3", "4", "5", "6", "7", "8", "9"}

DigitValue(c) ==
    CASE c = "0" -> 0 [] c = "1" -> 1 [] c = "2" -> 2 [] c = "3" -> 3
      [] c = "4" -> 4 [] c = "5" -> 5 [] c = "6" -> 6 [] c = "7" -> 7
      [] c = "8" -> 8 [] c = "9" -> 9

RECURSIVE DigitRun(_)
\* the longest run of digits a string starts with
DigitRun(s) ==
    IF s = <<>> \/ Head(s) \notin Digits THEN <<>>
    ELSE <<Head(s)>> \o DigitRun(Tail(s))

RECURSIVE FirstDigitRun(_)
\* the capture group of /(\d+)k?/: the leftmost maximal run of digits, or
\* <<>> when the string holds no digit (no match)
FirstDigitRun(s) ==
    IF s = <<>> THEN <<>>
    ELSE IF Head(s) \in Digits THEN DigitRun(s)
    ELSE FirstDigitRun(Tail(s))

RECURSIVE parseInt(_)
parseInt(digits) ==
    IF digits = <<>> THEN 0
    ELSE parseInt(SubSeq(digits, 1, Len(digits) - 1)) * 10 + DigitValue(Last(digits))

parseBitrate(bitrate) ==
    LET match == FirstDigitRun(bitrate)
    IN  IF match # <<>>
        THEN LET value == parseInt(match)
             IN  IF \E i \in 1..Len(bitrate) : bitrate[i] = "k"
                 THEN value * 1000 ELSE value
        ELSE 256000

\* parseBitrate(config.bitrate || '256k') of convertAudio
AudioBitrate(config) ==
    parseBitrate(IF Has(config, "bitrate") /\ config.bitrate # <<>>
                 THEN config.bitrate
                 ELSE <<"2", "5", "6", "k">>)

getMimeType(format) ==
    CASE format = "mp4" -> <<"video", "mp4">>
      [] format = "webm" -> <<"video", "webm">>
      [] format = "avi" -> <<"video", "avi">>
      [] format = "mov" -> <<"video", "quicktime">>
      [] format = "mp3" -> <<"audio", "mpeg">>
      [] format = "wav" -> <<"audio", "wav">>
      [] format = "aac" -> <<"audio", "aac">>
      [] format = "ogg" -> <<"audio", "ogg">>
      [] format = "jpeg" -> <<"image", "jpeg">>
      [] format = "jpg" -> <<"image", "jpeg">>
      [] format = "png" -> <<"image", "png">>
      [] format = "webp" -> <<"image", "webp">>
      [] format = "gif" -> <<"image", "gif">>
      [] OTHER -> <<"application", "octet-stream">>

\* the resolution buckets of convertVideo
Buckets == {"720p", "1080p", "4k"}

resolutionMap(bucket) ==
    CASE bucket = "720p"  -> [width |-> 1280, height |-> 720]
      [] bucket = "1080p" -> [width |-> 1920, height |-> 1080]
      [] bucket = "4k"    -> [width |-> 3840, height |-> 2160]

\* aspectRatio < targetRes.width / targetRes.height
WiderThanFlipped(videoWidth, videoHeight, targetRes) ==
    videoWidth * targetRes.height < targetRes.width * videoHeight

\* aspectRatio > targetRes.width / targetRes.height, with aspectRatio =
\* width / height, compared without the division
WiderThan(videoWidth, videoHeight, targetRes) ==
    videoWidth * targetRes.height > targetRes.width * videoHeight

\* a scaling that stretches the source to the bucket
ResolveDimensionsStretch(videoWidth, videoHeight, resolution) ==
    IF resolution # "" /\ resolution # "original"
    THEN resolutionMap(resolution)
    ELSE [width |-> videoWidth, height |-> videoHeight]

\* the canvas size convertVideo derives from the source size and the bucket
ResolveDimensions(videoWidth, videoHeight, resolution) ==
    IF resolution # "" /\ resolution # "original"
    THEN LET targetRes == resolutionMap(resolution)
         IN  IF WiderThan(videoWidth, videoHeight, targetRes)
             THEN [width |-> targetRes.width,
                   height |-> RoundDiv(targetRes.width * videoHeight, videoWidth)]
             ELSE [width |-> RoundDiv(targetRes.height * videoWidth, videoHeight),
                   height |-> targetRes.height]
    ELSE [width |-> videoWidth, height |-> videoHeight]


(***************************************************************************)
(* State.                                                                  *)
(***************************************************************************)
VARIABLES
    window,         \* the encode/decode primitives the host exposes
    options,        \* the ConversionOptions of the call
    opc,            \* position of convertFileWithWebCodecs
    fileType,       \* its local fileType
    outputFormat,   \* its local outputFormat
    mergedConfig,   \* its local mergedConfig
    promise,        \* the promise the dispatched pipeline returned
    delivered,      \* the terminal signals the caller has received
    ppc,            \* position of the dispatched pipeline
    video,          \* the <video> element of convertVideo
    canvas,         \* the off-screen surface of the pipeline
    encoderConfig,  \* the resolved encoder configuration
    enc,            \* the encoder of the call
    chunks,         \* the pipeline's chunks array
    frameCount,     \* convertVideo's frameCount
    totalFrames,    \* convertVideo's / convertAudio's totalFrames
    timers,         \* the setTimeout(processFrame) timers that have not fired yet
    audioBuffer,    \* the decoded AudioBuffer of convertAudio
    image,          \* the Image element of convertImage
    artifact,       \* the output blob the pipeline assembled
    emitted,        \* history: the chunks the encoder handed to output()
    submitted,      \* history: the frames passed to encoder.encode()
    seeks,          \* history: the seeks issued on the video element
    openFrames,     \* history: frames created and not yet closed
    flushRequested, \* history: calls of encoder.flush()
    flushCompleted, \* history: flush promises that fulfilled
    failed,         \* history: the steps of the call that failed
    dispatched,     \* the pipeline calls of convertFileWithWebCodecs, with
                    \* their arguments
    rin,            \* the arguments of a call of a parameter resolver
    rout,           \* the value that call returned
    calls,          \* two conversions in progress at once: each call's
                    \* position and the session it created
    sessions,       \* the sessions: surface, encoder, chunks, frame counter
    ffmpeg,         \* lib/ffmpeg.ts: the cached engine handle (0 is null)
    isLoaded,       \* lib/ffmpeg.ts: the isLoaded flag
    engines,        \* the FFmpeg objects created so far: load state, files
                    \* in memory, progress listeners
    tasks,          \* the calls of getFFmpeg, convertFile and processVideo:
                    \* position, locals and settled promise
    progress,       \* history: the progress events and the callbacks each
                    \* one invoked
    home,           \* the state of the Home component (its useState cells)
    conversions     \* the converter calls of handleConvert that have not
                    \* settled yet, with their arguments

orchVars == <<window, options, opc, fileType, outputFormat, mergedConfig, dispatched>>
resolverVars == <<rin, rout>>
concurrentVars == <<calls, sessions>>
engineVars == <<ffmpeg, isLoaded, engines, tasks, progress>>
uiVars == <<home, conversions>>
mediaVars == <<video, canvas, audioBuffer, image>>
loopVars == <<frameCount, totalFrames, timers>>
encVars == <<encoderConfig, enc, chunks>>
histVars == <<emitted, submitted, seeks, openFrames, flushRequested, flushCompleted>>
\* everything a conversion call reads or writes
conversionVars == <<orchVars, promise, delivered, ppc, mediaVars, loopVars,
                    encVars, artifact, histVars, failed>>
vars == <<orchVars, promise, delivered, ppc, mediaVars, loopVars, encVars,
          artifact, histVars, failed, resolverVars, concurrentVars,
          engineVars, uiVars>>

(***************************************************************************)
(* Promises.  The pipeline promise has one consumer, the await of the      *)
(* orchestrator; reactions counts the reaction jobs queued for it.         *)
(***************************************************************************)
NewPromise == [state |-> "pending", value |-> [bytes |-> <<>>, type |-> <<>>],
               reason |-> "", reactions |-> 0]

\* the resolve function of new Promise((resolve, reject) => ...)
Resolve(p, blob) ==
    IF p.state = "pending"
    THEN [p EXCEPT !.state = "fulfilled", !.value = blob, !.reactions = @ + 1]
    ELSE p

\* a reject that signals its consumer on every call
RejectEveryCall(p, error) ==
    [p EXCEPT !.state = "rejected", !.reason = error, !.reactions = @ + 1]

\* the reject function of new Promise((resolve, reject) => ...)
Reject(p, error) ==
    IF p.state = "pending"
    THEN [p EXCEPT !.state = "rejected", !.reason = error, !.reactions = @ + 1]
    ELSE p

\* a rational number num/den, den > 0
Rat(n, d) == [num |-> n, den |-> d]
RatLeq(a, b) == a.num * b.den <= b.num * a.den
RatEq(a, b) == a.num * b.den = b.num * a.den

\* a timestamp of (num / den) * scale microseconds, den > 0
Micros(n, d, sc) == [num |-> n, den |-> d, scale |-> sc]
MicrosLeq(a, b) ==
    IF a.scale = b.scale THEN a.num * b.den <= b.num * a.den
    ELSE a.num * a.scale * b.den <= b.num * b.scale * a.den
MicrosEq(a, b) == MicrosLeq(a, b) /\ MicrosLeq(b, a)

NoVideo == [state |-> "none", videoWidth |-> 0, videoHeight |-> 0, duration |-> 0,
            seeking |-> FALSE, currentTime |-> Rat(0, 1), shown |-> Rat(0, 1),
            onseeked |-> FALSE, revoked |-> FALSE]
NoEncoder == [state |-> "none", kind |-> "", queue |-> <<>>, flushPending |-> FALSE]
NoBlob == [bytes |-> <<>>, type |-> <<>>]
NoArtifact == [made |-> FALSE, blob |-> NoBlob,
               framesSubmitted |-> 0, flushesCompleted |-> 0]
NoAudioBuffer == [numberOfChannels |-> 0, length |-> 0, sampleRate |-> 0]
NoImage == [state |-> "none", naturalWidth |-> 0, naturalHeight |-> 0,
            exportQuality |-> Rat(0, 1), exportType |-> <<>>, revoked |-> FALSE]
NoEncoderConfig == [codec |-> "", width |-> 0, height |-> 0, bitrate |-> 0,
                    framerate |-> 0, sampleRate |-> 0, numberOfChannels |-> 0]

Signal(kind, message, blob, filename, originalSize, format) ==
    [kind |-> kind, message |-> message, file |-> blob, filename |-> filename,
     originalSize |-> originalSize, convertedSize |-> Len(blob.bytes),
     format |-> format]

ErrorSignal(message) == Signal("error", message, NoBlob, <<>>, 0, "")

NoResolverCall == [call |-> "none"]
NoResolverResult == [done |-> FALSE]

\* the state of a call that has not started
PipelineInit ==
    /\ fileType = ""
    /\ dispatched = <<>>
    /\ outputFormat = ""
    /\ mergedConfig = DEFAULT_CONFIG
    /\ promise = NewPromise
    /\ delivered = <<>>
    /\ ppc = "none"
    /\ video = NoVideo
    /\ canvas = [width |-> 0, height |-> 0, drawn |-> Rat(0, 1)]
    /\ encoderConfig = NoEncoderConfig
    /\ enc = NoEncoder
    /\ chunks = <<>>
    /\ frameCount = 0
    /\ totalFrames = 0
    /\ timers = 0
    /\ audioBuffer = NoAudioBuffer
    /\ image = NoImage
    /\ artifact = NoArtifact
    /\ emitted = <<>>
    /\ submitted = <<>>
    /\ seeks = <<>>
    /\ openFrames = 0
    /\ flushRequested = 0
    /\ flushCompleted = 0
    /\ failed = {}

\* the conversions that run side by side, and the objects they can create
CallIds == {1, 2}
SessionIds == {1, 2}

NoSession == [chunks |-> <<>>, frameCount |-> 0, queue |-> <<>>, surface |-> <<>>]
NoCall(kind, total) ==
    [kind |-> kind, totalFrames |-> total, pc |-> "idle", session |-> 0,
     frames |-> 0, artifact |-> <<>>]

\* no second conversion is in progress
SingleCall ==
    /\ calls = [c \in CallIds |-> NoCall("video", 0)]
    /\ sessions = [id \in SessionIds |-> NoSession]

(***************************************************************************)
(* The idle state of the command-string backend and of the page.           *)
(***************************************************************************)
\* two calls of the command-string backend in progress at once
TaskIds == {1, 2}

NoFile == [isFile |-> FALSE, name |-> <<>>, type |-> <<>>, size |-> 0]
NoOutput == [from |-> 0, type |-> <<>>]
NoTask == [op |-> "none", pc |-> "idle", inputFile |-> NoFile,
           targetFormat |-> NoFormat, onProgress |-> FALSE, handle |-> 0,
           inputName |-> <<>>, outputName |-> <<>>, data |-> 0,
           state |-> "pending", reason |-> "", blob |-> NoOutput,
           filename |-> <<>>]
NoEngine == [state |-> "absent", files |-> {}, listeners |-> {}]

\* let ffmpeg = null; let isLoaded = false
EngineIdle ==
    /\ ffmpeg = 0
    /\ isLoaded = FALSE
    /\ engines = [e \in TaskIds |-> NoEngine]
    /\ tasks = [t \in TaskIds |-> NoTask]
    /\ progress = {}

NoResult == [file |-> [source |-> <<>>, type |-> <<>>], filename |-> <<>>,
             originalSize |-> 0, format |-> ""]

\* the useState initial values of Home
HomeIdle ==
    /\ home = [selectedFile |-> NoFile, isConverting |-> FALSE,
               conversionResult |-> NoResult, error |-> "",
               targetFormat |-> "", useWebCodecs |-> FALSE]
    /\ conversions = <<>>

Init ==
    /\ window \in SUBSET WindowApis
    /\ options \in AllOptions
    /\ opc = "start"
    /\ rin = NoResolverCall
    /\ rout = NoResolverResult
    /\ SingleCall
    /\ PipelineInit
    /\ EngineIdle
    /\ HomeIdle

\* a fallback to the fixed defaults instead of the merged configuration
ResolveOutputFormatFixed(targetFormat, merged, type) ==
    IF targetFormat # NoFormat THEN targetFormat ELSE DEFAULT_CONFIG[type].format

\* let outputFormat = targetFormat; if (!outputFormat) outputFormat =
\* mergedConfig[fileType].format
ResolveOutputFormat(targetFormat, merged, type) ==
    IF targetFormat # NoFormat THEN targetFormat ELSE merged[type].format

\* a switch that hands every pipeline the fixed defaults
DispatchDefaults(type, format, merged) ==
    [pipeline |-> type, targetFormat |-> format, config |-> DEFAULT_CONFIG[type]]

\* the switch (fileType) of convertFileWithWebCodecs: the pipeline it calls
\* and the arguments it passes after the input file
Dispatch(type, format, merged) ==
    CASE type = "video" ->
           [pipeline |-> "video", targetFormat |-> format, config |-> merged.video]
      [] type = "audio" ->
           [pipeline |-> "audio", targetFormat |-> format, config |-> merged.audio]
      [] type = "image" ->
           [pipeline |-> "image", targetFormat |-> format, config |-> merged.image]

\* the targetFormat and config parameters of the running pipeline
PipelineArgs == dispatched[Len(dispatched)]

(***************************************************************************)
(* convertFileWithWebCodecs, from its call to the await of the pipeline.   *)
(* The dispatched pipeline runs synchronously up to its first suspension:  *)
(* convertVideo until it waits for the metadata, convertAudio until it     *)
(* waits for file.arrayBuffer(), convertImage until it waits for the load. *)
(***************************************************************************)
convertFileWithWebCodecs ==
    /\ opc = "start"
    /\ LET inputFile == options.inputFile
           targetFormat == IF Has(options, "targetFormat")
                           THEN options.targetFormat ELSE NoFormat
           config == IF Has(options, "config") THEN options.config ELSE <<>>
           autoDetect == IF Has(options, "autoDetect") THEN options.autoDetect ELSE TRUE
           merged == MergeConfig(config)
           type == IF autoDetect THEN detectFileType(inputFile) ELSE "video"
           format == ResolveOutputFormat(targetFormat, merged, type)
       IN  IF ~isWebCodecsSupported(window)
           THEN /\ delivered' = Append(delivered,
                        ErrorSignal(<<"WebCodecs is not supported in this browser">>))
                /\ opc' = "done"
                /\ failed' = failed \cup {"UnsupportedEnvironment"}
                /\ UNCHANGED <<fileType, outputFormat, mergedConfig, dispatched,
                               promise, ppc, video, image>>
           ELSE IF type = "unknown"
           THEN /\ delivered' = Append(delivered, ErrorSignal(<<"Unsupported file type">>))
                /\ opc' = "done"
                /\ mergedConfig' = merged
                /\ fileType' = type
                /\ failed' = failed \cup {"UnsupportedFileType"}
                /\ UNCHANGED <<outputFormat, dispatched, promise, ppc, video, image>>
           ELSE /\ mergedConfig' = merged
                /\ fileType' = type
                /\ outputFormat' = format
                /\ opc' = "awaiting"
                /\ promise' = NewPromise
                /\ LET call == Dispatch(type, format, merged)
                   IN  /\ dispatched' = Append(dispatched, call)
                       /\ ppc' = CASE call.pipeline = "video" -> "v_metadata"
                                   [] call.pipeline = "audio" -> "a_read"
                                   [] call.pipeline = "image" -> "i_load"
                       /\ video' = IF call.pipeline = "video"
                                   THEN [video EXCEPT !.state = "loading"] ELSE video
                       /\ image' = IF call.pipeline = "image"
                                   THEN [image EXCEPT !.state = "loading"] ELSE image
                /\ UNCHANGED <<delivered, failed>>
    /\ UNCHANGED <<resolverVars, concurrentVars, engineVars, uiVars, window, options, canvas, audioBuffer, loopVars,
                   encVars, artifact, histVars>>

(***************************************************************************)
(* The continuation of convertFileWithWebCodecs after the await: one       *)
(* reaction job of the pipeline promise.                                   *)
(***************************************************************************)
convertFileWithWebCodecsResume ==
    /\ promise.reactions > 0
    /\ promise' = [promise EXCEPT !.reactions = @ - 1]
    /\ opc' = "done"
    /\ delivered' = Append(delivered,
          IF promise.state = "fulfilled"
          THEN Signal("result", <<>>, promise.value,
                      generateOutputFilename(options.inputFile, outputFormat),
                      options.inputFile.size, outputFormat)
          ELSE ErrorSignal(<<"Conversion failed: ", promise.reason>>))
    /\ UNCHANGED <<resolverVars, concurrentVars, engineVars, uiVars, window, options, fileType, outputFormat,
                   mergedConfig, dispatched, ppc,
                   mediaVars, loopVars, encVars, artifact, histVars, failed>>


(***************************************************************************)
(* Host inputs of the video pipeline.                                      *)
(***************************************************************************)
SourceSizes == { [width |-> 1920, height |-> 1080], [width |-> 640, height |-> 480] }
\* video.duration in twentieths of a second
Durations == 0..MaxDuration

\* Math.floor(video.duration * frameRate)
TotalVideoFrames(duration) == (duration * frameRate) \div 20

\* x || fallback for an optional string property of a configuration
OrDefault(config, field, fallback) ==
    IF Has(config, field) /\ config[field] # "" THEN config[field] ELSE fallback

\* an encoder configuration whose bitrate is taken from the source size
ResolveEncoderConfigSourceSize(config, videoWidth, videoHeight) ==
    LET dims == ResolveDimensions(videoWidth, videoHeight,
                                  OrDefault(config, "resolution", ""))
    IN  [NoEncoderConfig EXCEPT
            !.codec = getVideoCodec(OrDefault(config, "codec", "h264")),
            !.width = dims.width,
            !.height = dims.height,
            !.bitrate = getBitrate(OrDefault(config, "quality", "medium"),
                                   videoWidth, videoHeight),
            !.framerate = 30]

\* the width and height convertVideo resolves and the encoderConfig it
\* builds from them
ResolveEncoderConfig(config, videoWidth, videoHeight) ==
    LET dims == ResolveDimensions(videoWidth, videoHeight,
                                  OrDefault(config, "resolution", ""))
    IN  [NoEncoderConfig EXCEPT
            !.codec = getVideoCodec(OrDefault(config, "codec", "h264")),
            !.width = dims.width,
            !.height = dims.height,
            !.bitrate = getBitrate(OrDefault(config, "quality", "medium"),
                                   dims.width, dims.height),
            !.framerate = 30]

\* chunks.unshift(buffer)
OutputCallbackUnshift(chs, buffer) == <<buffer>> \o chs

\* the output callback of the encoder: chunks.push(buffer)
OutputCallback(chs, buffer) == Append(chs, buffer)

\* new Blob(chunks.map(chunk => new Uint8Array(chunk)), { type: mimeType })
Assemble(chs, targetFormat) ==
    [bytes |-> Flatten(chs), type |-> getMimeType(targetFormat)]

\* an error callback that hands over what has been encoded so far
ErrorCallbackPartial(p, error) == Resolve(p, NoBlob)

\* the error callback of the encoder: reject(error)
ErrorCallback(p, error) == Reject(p, error)

(***************************************************************************)
(* convertVideo: the source fires loadedmetadata; the pipeline sizes the   *)
(* surface, resolves the encoder configuration and asks the host whether   *)
(* it is supported.                                                        *)
(***************************************************************************)
VideoMetadataLoaded ==
    /\ ppc = "v_metadata"
    /\ video.state = "loading"
    /\ \E size \in SourceSizes, duration \in Durations :
        LET config == PipelineArgs.config
            resolution == OrDefault(config, "resolution", "")
            resolved == ResolveEncoderConfig(config, size.width, size.height)
        IN  /\ video' = [video EXCEPT !.state = "loaded",
                                      !.videoWidth = size.width,
                                      !.videoHeight = size.height,
                                      !.duration = duration]
            /\ IF resolution \notin Buckets \cup {"original", ""}
               THEN \* resolutionMap[config.resolution] is undefined: TypeError
                    /\ promise' = Reject(promise, "TypeError")
                    /\ ppc' = "v_failed"
                    /\ failed' = failed \cup {"ConfigFailure"}
                    /\ UNCHANGED <<canvas, encoderConfig>>
               ELSE /\ canvas' = [canvas EXCEPT !.width = resolved.width,
                                                !.height = resolved.height]
                    /\ encoderConfig' = resolved
                    /\ ppc' = "v_support"
                    /\ UNCHANGED <<promise, failed>>
    /\ UNCHANGED <<resolverVars, concurrentVars, engineVars, uiVars, orchVars, delivered, audioBuffer, image, loopVars, enc, chunks,
                   artifact, histVars>>

\* the source fails to load: the element fires error, which nothing handles
VideoMetadataError ==
    /\ ppc = "v_metadata"
    /\ video.state = "loading"
    /\ video' = [video EXCEPT !.state = "error"]
    /\ failed' = failed \cup {"DecodeFailure"}
    /\ UNCHANGED <<resolverVars, concurrentVars, engineVars, uiVars, orchVars, promise, delivered, ppc, canvas, audioBuffer, image,
                   loopVars, encVars, artifact, histVars>>

\* if (frameCount + 1 >= totalFrames)
AllFramesProcessedEarly(count, total) == count + 1 >= total

\* if (frameCount >= totalFrames): every frame has been submitted
AllFramesProcessed(count, total) == count >= total

\* video.currentTime = frameCount * frameRate
SeekPositionTimes(count) == Rat(count * frameRate, 1)

\* video.currentTime = frameCount / frameRate, in seconds
SeekPosition(count) == Rat(count, frameRate)

\* a frameDuration of 1000 / frameRate: milliseconds
FrameTimestampMillis(count) == Micros(count, frameRate, 1000)

\* timestamp: frameCount * frameDuration with frameDuration = 1000000 / frameRate,
\* in microseconds
FrameTimestamp(count) == Micros(count, frameRate, 1000000)

\* processFrame scheduled twice
ScheduleNextTwice(pending) == pending + 2

\* setTimeout(processFrame, 1000 / frameRate): one more timer is pending
ScheduleNext(pending) == pending + 1

\* the result of the support query ignored
ConfigAcceptedAlways(outcome) == TRUE

\* if (!codecSupport.supported) throw ...: the configuration passes the check
ConfigAccepted(outcome) == outcome = "supported"

\* what went wrong in a support query with the given outcome
SupportFailure(outcome) ==
    CASE outcome = "unsupported" -> {"UnsupportedCodec"}
      [] outcome = "throws" -> {"SupportQueryFailure"}
      [] OTHER -> {}

(***************************************************************************)
(* processFrame, applied to the values its caller has produced so far.     *)
(***************************************************************************)
processFrame(count, total, e, v, sk, p) ==
    IF AllFramesProcessed(count, total)
    THEN /\ flushRequested' = flushRequested + 1
         /\ IF e.state = "configured"
            THEN /\ enc' = [e EXCEPT !.flushPending = TRUE]
                 /\ promise' = p
            ELSE \* flush() of a closed encoder returns a rejected promise,
                 \* which .catch(reject) passes on
                 /\ enc' = e
                 /\ promise' = Reject(p, "InvalidStateError")
         /\ video' = v
         /\ seeks' = sk
    ELSE /\ video' = [v EXCEPT !.currentTime = SeekPosition(count),
                               !.seeking = TRUE,
                               !.onseeked = TRUE]
         /\ seeks' = Append(sk, [pos |-> SeekPosition(count), frame |-> count,
                                 submittedBefore |-> Len(submitted),
                                 open |-> openFrames])
         /\ enc' = e
         /\ promise' = p
         /\ UNCHANGED flushRequested

(***************************************************************************)
(* convertVideo: VideoEncoder.isConfigSupported settles.  When the         *)
(* configuration is supported the encoder is created and configured, the   *)
(* source is rewound and processFrame runs for the first time.             *)
(***************************************************************************)
VideoSupportResult ==
    /\ ppc = "v_support"
    /\ \E outcome \in {"supported", "unsupported", "throws"} :
      /\ failed' = failed \cup SupportFailure(outcome)
      /\
        IF outcome # "throws" /\ ConfigAccepted(outcome)
        THEN /\ chunks' = <<>>
             /\ frameCount' = 0
             /\ totalFrames' = TotalVideoFrames(video.duration)
             /\ ppc' = "v_loop"
             /\ processFrame(0, TotalVideoFrames(video.duration),
                             [state |-> "configured", kind |-> "video",
                              queue |-> <<>>, flushPending |-> FALSE],
                             \* video.currentTime = 0
                             [video EXCEPT !.currentTime = Rat(0, 1), !.seeking = TRUE],
                             Append(seeks, [pos |-> Rat(0, 1), frame |-> -1,
                                            submittedBefore |-> Len(submitted),
                                            open |-> openFrames]),
                             promise)
        ELSE /\ promise' = Reject(promise, IF outcome = "unsupported"
                                           THEN "Video codec is not supported"
                                           ELSE "TypeError")
             /\ ppc' = "v_failed"
             /\ UNCHANGED <<video, enc, chunks, frameCount, totalFrames, seeks,
                            flushRequested>>
    /\ UNCHANGED <<resolverVars, concurrentVars, engineVars, uiVars, orchVars, delivered, canvas, audioBuffer, image, timers,
                   encoderConfig, artifact, emitted, submitted, openFrames,
                   flushCompleted>>

(***************************************************************************)
(* The pending seek completes and the element fires seeked.  The handler   *)
(* installed by processFrame draws the frame, wraps it, submits it,        *)
(* releases it and schedules processFrame.  An exception in the handler    *)
(* (the draw fails, or encode() finds the encoder closed) is uncaught.     *)
(***************************************************************************)
VideoSeeked ==
    /\ video.seeking
    /\ video.state = "loaded"
    /\ \E outcome \in {"ok", "drawThrows"} :
        LET shown == video.currentTime
            videoFrame == [index |-> frameCount,
                           timestamp |-> FrameTimestamp(frameCount),
                           pos |-> shown,
                           size |-> 1,
                           flushesBefore |-> flushRequested]
        IN  /\ video' = [video EXCEPT !.seeking = FALSE, !.shown = shown]
            /\ IF ~video.onseeked
               THEN /\ outcome = "ok"
                    /\ UNCHANGED <<canvas, enc, submitted, openFrames, frameCount,
                                   timers, failed>>
               ELSE IF outcome = "drawThrows"
               THEN /\ failed' = failed \cup {"DrawFailure"}
                    /\ UNCHANGED <<canvas, enc, submitted, openFrames, frameCount,
                                   timers>>
               ELSE /\ canvas' = [canvas EXCEPT !.drawn = shown]
                    /\ IF enc.state = "configured"
                       THEN /\ enc' = [enc EXCEPT !.queue = Append(@, videoFrame)]
                            /\ submitted' = Append(submitted, videoFrame)
                            /\ frameCount' = frameCount + 1
                            /\ timers' = ScheduleNext(timers)
                            /\ UNCHANGED openFrames
                       ELSE \* encode() throws InvalidStateError: close() is skipped
                            /\ openFrames' = openFrames + 1
                            /\ UNCHANGED <<enc, submitted, frameCount, timers>>
                    /\ UNCHANGED failed
    /\ UNCHANGED <<resolverVars, concurrentVars, engineVars, uiVars, orchVars, promise, delivered, ppc, audioBuffer, image,
                   totalFrames, encoderConfig, chunks, artifact, emitted, seeks,
                   flushRequested, flushCompleted>>

\* the seek a frame waits for fails: the element fires error, which nothing
\* handles
VideoSeekFailed ==
    /\ video.seeking
    /\ video.state = "loaded"
    /\ video.onseeked
    /\ video' = [video EXCEPT !.seeking = FALSE, !.state = "error"]
    /\ failed' = failed \cup {"SeekFailure"}
    /\ UNCHANGED <<resolverVars, concurrentVars, engineVars, uiVars, orchVars, promise, delivered, ppc, canvas, audioBuffer, image,
                   loopVars, encVars, artifact, histVars>>

\* a setTimeout(processFrame, 1000 / frameRate) fires
VideoTimer ==
    /\ timers > 0
    /\ timers' = timers - 1
    /\ processFrame(frameCount, totalFrames, enc, video, seeks, promise)
    /\ UNCHANGED <<resolverVars, concurrentVars, engineVars, uiVars, orchVars, delivered, ppc, canvas, audioBuffer, image, frameCount,
                   totalFrames, encoderConfig, chunks, artifact, emitted, submitted,
                   openFrames, flushCompleted, failed>>


(***************************************************************************)
(* The encoder (host).  It emits one chunk per submitted frame, in         *)
(* submission order; a chunk of the frame with index i holds bytes i.      *)
(***************************************************************************)
ChunkOf(frame, len) == [k \in 1..len |-> frame.index]

EncoderOutput ==
    /\ enc.state = "configured"
    /\ enc.queue # <<>>
    /\ \E len \in 1..MaxChunkLen :
        LET buffer == ChunkOf(Head(enc.queue), len)
        IN  /\ chunks' = OutputCallback(chunks, buffer)
            /\ emitted' = Append(emitted, buffer)
    /\ enc' = [enc EXCEPT !.queue = Tail(@)]
    /\ UNCHANGED <<resolverVars, concurrentVars, engineVars, uiVars, orchVars, promise, delivered, ppc, mediaVars, loopVars,
                   encoderConfig, artifact, submitted, seeks, openFrames,
                   flushRequested, flushCompleted, failed>>

\* The encoder fails while it has work: the host closes it, rejects the
\* pending flush promise and invokes the error callback.
EncoderError ==
    /\ enc.state = "configured"
    /\ enc.queue # <<>> \/ enc.flushPending
    /\ enc' = [enc EXCEPT !.state = "closed", !.queue = <<>>, !.flushPending = FALSE]
    /\ promise' = IF enc.flushPending
                  THEN Reject(ErrorCallback(promise, "EncodingError"), "EncodingError")
                  ELSE ErrorCallback(promise, "EncodingError")
    /\ ppc' = IF enc.kind = "audio" THEN "a_failed" ELSE ppc
    /\ failed' = failed \cup {"EncodeFailure"}
    /\ UNCHANGED <<resolverVars, concurrentVars, engineVars, uiVars, orchVars, delivered, mediaVars, loopVars, encoderConfig, chunks,
                   artifact, histVars>>

\* the flush of the video encoder completes: the then-callback of
\* encoder.flush() assembles the output and resolves
VideoFlushed ==
    /\ enc.kind = "video"
    /\ enc.state = "configured"
    /\ enc.flushPending
    /\ enc.queue = <<>>
    /\ enc' = [enc EXCEPT !.flushPending = FALSE]
    /\ flushCompleted' = flushCompleted + 1
    /\ video' = [video EXCEPT !.revoked = TRUE]
    /\ LET outputBlob == Assemble(chunks, PipelineArgs.targetFormat)
       IN  /\ artifact' = [made |-> TRUE, blob |-> outputBlob,
                           framesSubmitted |-> Len(submitted),
                           flushesCompleted |-> flushCompleted + 1]
           /\ promise' = Resolve(promise, outputBlob)
    /\ ppc' = "v_done"
    /\ UNCHANGED <<resolverVars, concurrentVars, engineVars, uiVars, orchVars, delivered, canvas, audioBuffer, image, loopVars,
                   encoderConfig, chunks, emitted, submitted, seeks, openFrames,
                   flushRequested, failed>>

(***************************************************************************)
(* convertAudio.                                                           *)
(***************************************************************************)
SampleRates == {44100, 48000}
\* audioBuffer.length: whole blocks, and whole blocks plus one sample
AudioLengths == { k * frameSize + r : k \in 0..MaxBlocks, r \in {0, 1} }

\* Math.ceil(totalSamples / frameSize)
TotalAudioFrames(totalSamples) == (totalSamples + frameSize - 1) \div frameSize

Min(a, b) == IF a < b THEN a ELSE b

\* a block size that ignores the end of the buffer
CurrentFrameSizeFull(offset, totalSamples) == frameSize

\* const currentFrameSize = Math.min(frameSize, totalSamples - offset)
CurrentFrameSize(offset, totalSamples) == Min(frameSize, totalSamples - offset)

RECURSIVE AudioBlocks(_, _, _)
\* the AudioData blocks of the loop
\*   for (let offset = 0; offset < totalSamples; offset += frameSize)
\* from the given offset on
AudioBlocks(offset, totalSamples, sampleRate) ==
    IF offset < totalSamples
    THEN <<[index |-> offset \div frameSize,
            \* (offset / audioBuffer.sampleRate) * 1000000
            timestamp |-> Micros(offset, sampleRate, 1000000),
            pos |-> Rat(offset, 1),
            size |-> CurrentFrameSize(offset, totalSamples),
            flushesBefore |-> flushRequested]>>
         \o AudioBlocks(offset + frameSize, totalSamples, sampleRate)
    ELSE <<>>

\* audioBuffer.getChannelData(channel): sample number s of channel c is
\* written <<c, s>>, both counted from 0
getChannelData(buffer, channel) ==
    [s \in 1..buffer.length |-> <<channel, s - 1>>]

\* Float32Array.prototype.slice(begin, end) with 0 <= begin <= end <= length
Slice(data, begin, end) == SubSeq(data, begin + 1, end)

\* a planar layout: interleavedData[channel * currentFrameSize + frame]
InterleavePlanar(channels, currentFrameSize, numberOfChannels) ==
    [k \in 1..(currentFrameSize * numberOfChannels) |->
        channels[(k - 1) \div currentFrameSize][((k - 1) % currentFrameSize) + 1]]

\* interleavedData[frame * numberOfChannels + channel] = channels[channel][frame]
\* for every frame and channel; position k of the sequence is index k - 1
Interleave(channels, currentFrameSize, numberOfChannels) ==
    [k \in 1..(currentFrameSize * numberOfChannels) |->
        channels[(k - 1) % numberOfChannels][((k - 1) \div numberOfChannels) + 1]]

\* the data of the AudioData block the loop builds at an offset
InterleavedBlock(buffer, offset) ==
    LET currentFrameSize == CurrentFrameSize(offset, buffer.length)
        channels == [channel \in 0..(buffer.numberOfChannels - 1) |->
                        Slice(getChannelData(buffer, channel), offset,
                              offset + currentFrameSize)]
    IN  Interleave(channels, currentFrameSize, buffer.numberOfChannels)

\* await file.arrayBuffer() settles
AudioRead ==
    /\ ppc = "a_read"
    /\ \E ok \in BOOLEAN :
        IF ok
        THEN /\ ppc' = "a_decode"
             /\ UNCHANGED <<promise, failed>>
        ELSE /\ ppc' = "a_failed"
             /\ promise' = Reject(promise, "NotReadableError")
             /\ failed' = failed \cup {"ReadFailure"}
    /\ UNCHANGED <<resolverVars, concurrentVars, engineVars, uiVars, orchVars, delivered, mediaVars, loopVars, encVars, artifact,
                   histVars>>

\* await audioContext.decodeAudioData(arrayBuffer) settles; on success the
\* encoder configuration is resolved and the support query issued
AudioDecoded ==
    /\ ppc = "a_decode"
    /\ \/ /\ \E n \in 1..MaxChannels, len \in AudioLengths, rate \in SampleRates :
               audioBuffer' = [numberOfChannels |-> n, length |-> len,
                               sampleRate |-> rate]
          /\ LET config == PipelineArgs.config
             IN  encoderConfig' =
                   [NoEncoderConfig EXCEPT
                      !.codec = getAudioCodec(PipelineArgs.targetFormat),
                      !.sampleRate = IF Has(config, "sampleRate") /\ config.sampleRate # 0
                                     THEN config.sampleRate ELSE 44100,
                      !.numberOfChannels = audioBuffer'.numberOfChannels,
                      !.bitrate = AudioBitrate(config)]
          /\ ppc' = "a_support"
          /\ UNCHANGED <<promise, failed>>
       \/ /\ ppc' = "a_failed"
          /\ promise' = Reject(promise, "EncodingError: unable to decode audio data")
          /\ failed' = failed \cup {"DecodeFailure"}
          /\ UNCHANGED <<audioBuffer, encoderConfig>>
    /\ UNCHANGED <<resolverVars, concurrentVars, engineVars, uiVars, orchVars, delivered, video, canvas, image, loopVars, enc, chunks,
                   artifact, histVars>>

\* AudioEncoder.isConfigSupported settles.  When the configuration is
\* supported the encoder is created and configured and the block loop runs
\* to its end in the same task, followed by the call of encoder.flush(); an
\* exception at block throwAt leaves the loop for the catch clause.
AudioSupportResult ==
    /\ ppc = "a_support"
    /\ \E outcome \in {"supported", "unsupported", "throws"} :
      /\
        IF outcome # "throws" /\ ConfigAccepted(outcome)
        THEN LET blocks == AudioBlocks(0, audioBuffer.length, audioBuffer.sampleRate)
             IN  \E throwAt \in 0..Len(blocks) :
                   /\ chunks' = <<>>
                   /\ totalFrames' = TotalAudioFrames(audioBuffer.length)
                   /\ submitted' = SubSeq(blocks, 1, throwAt)
                   /\ IF throwAt < Len(blocks)
                      THEN /\ enc' = [state |-> "configured", kind |-> "audio",
                                      queue |-> SubSeq(blocks, 1, throwAt),
                                      flushPending |-> FALSE]
                           /\ promise' = Reject(promise, "TypeError")
                           /\ ppc' = "a_failed"
                           /\ UNCHANGED <<flushRequested, openFrames>>
                      ELSE /\ enc' = [state |-> "configured", kind |-> "audio",
                                      queue |-> blocks, flushPending |-> TRUE]
                           /\ flushRequested' = flushRequested + 1
                           /\ ppc' = "a_flush"
                           /\ UNCHANGED <<promise, openFrames>>
        ELSE /\ promise' = Reject(promise, IF outcome = "unsupported"
                                           THEN "Audio codec is not supported"
                                           ELSE "TypeError")
             /\ ppc' = "a_failed"
             /\ UNCHANGED <<enc, chunks, totalFrames, submitted, openFrames,
                            flushRequested>>
      /\ failed' = failed \cup SupportFailure(outcome)
                         \cup (IF ppc' = "a_failed" /\ outcome = "supported"
                               THEN {"SubmitFailure"} ELSE {})
    /\ UNCHANGED <<resolverVars, concurrentVars, engineVars, uiVars, orchVars, delivered, mediaVars, frameCount, timers, encoderConfig,
                   artifact, emitted, seeks, flushCompleted>>

\* await encoder.flush() fulfils: the context is closed, the output
\* assembled and the promise resolved
AudioFlushed ==
    /\ ppc = "a_flush"
    /\ enc.kind = "audio"
    /\ enc.state = "configured"
    /\ enc.flushPending
    /\ enc.queue = <<>>
    /\ enc' = [enc EXCEPT !.flushPending = FALSE]
    /\ flushCompleted' = flushCompleted + 1
    /\ LET outputBlob == Assemble(chunks, PipelineArgs.targetFormat)
       IN  /\ artifact' = [made |-> TRUE, blob |-> outputBlob,
                           framesSubmitted |-> Len(submitted),
                           flushesCompleted |-> flushCompleted + 1]
           /\ promise' = Resolve(promise, outputBlob)
    /\ ppc' = "a_done"
    /\ UNCHANGED <<resolverVars, concurrentVars, engineVars, uiVars, orchVars, delivered, mediaVars, loopVars, encoderConfig, chunks,
                   emitted, submitted, seeks, openFrames, flushRequested, failed>>

(***************************************************************************)
(* convertImage.                                                           *)
(***************************************************************************)
ImageSizes == { [width |-> 640, height |-> 480] }
\* the blobs canvas.toBlob can hand to its callback; <<>> stands for null
ExportedBytes == { <<>>, <<7, 7>> }

\* config[field] || fallback for an optional number
NumberOr(config, field, fallback) ==
    IF Has(config, field) /\ config[field] # 0 THEN config[field] ELSE fallback

\* a surface that always takes the size of the source
ImageExportParametersNatural(config, naturalWidth, naturalHeight) ==
    [width |-> naturalWidth,
     height |-> naturalHeight,
     quality |-> Rat(NumberOr(config, "quality", 85), 100)]

\* the canvas size and the quality argument of canvas.toBlob in img.onload:
\* config.width || img.naturalWidth, config.height || img.naturalHeight,
\* (config.quality || 85) / 100
ImageExportParameters(config, naturalWidth, naturalHeight) ==
    [width |-> NumberOr(config, "width", naturalWidth),
     height |-> NumberOr(config, "height", naturalHeight),
     quality |-> Rat(NumberOr(config, "quality", 85), 100)]

\* img.onload: the surface is sized, the image drawn and toBlob called
ImageLoaded ==
    /\ ppc = "i_load"
    /\ \E size \in ImageSizes :
        LET export == ImageExportParameters(PipelineArgs.config, size.width,
                                            size.height)
        IN  /\ image' = [image EXCEPT !.state = "loaded",
                                      !.naturalWidth = size.width,
                                      !.naturalHeight = size.height,
                                      !.exportQuality = export.quality,
                                      !.exportType = getMimeType(PipelineArgs.targetFormat)]
            /\ canvas' = [canvas EXCEPT !.width = export.width,
                                        !.height = export.height]
    /\ ppc' = "i_export"
    /\ UNCHANGED <<resolverVars, concurrentVars, engineVars, uiVars, orchVars, promise, delivered, video, audioBuffer, loopVars,
                   encVars, artifact, histVars, failed>>

\* img.onerror
ImageError ==
    /\ ppc = "i_load"
    /\ image' = [image EXCEPT !.state = "error", !.revoked = TRUE]
    /\ promise' = Reject(promise, "Failed to load image")
    /\ ppc' = "i_failed"
    /\ failed' = failed \cup {"DecodeFailure"}
    /\ UNCHANGED <<resolverVars, concurrentVars, engineVars, uiVars, orchVars, delivered, video, canvas, audioBuffer, loopVars,
                   encVars, artifact, histVars>>

\* a callback that takes whatever it is handed as the result
BlobExportedAlways(bytes) == TRUE

\* if (blob) in the callback of canvas.toBlob: null is written <<>>
BlobExported(bytes) == bytes # <<>>

\* the callback of canvas.toBlob
ImageExported ==
    /\ ppc = "i_export"
    /\ \E bytes \in ExportedBytes :
        IF BlobExported(bytes)
        THEN LET blob == [bytes |-> bytes, type |-> image.exportType]
             IN  /\ promise' = Resolve(promise, blob)
                 /\ artifact' = [made |-> TRUE, blob |-> blob,
                                 framesSubmitted |-> 0, flushesCompleted |-> 0]
                 /\ ppc' = "i_done"
                 /\ UNCHANGED failed
        ELSE /\ promise' = Reject(promise, "Failed to convert image")
             /\ ppc' = "i_failed"
             /\ failed' = failed \cup {"AssemblyFailure"}
             /\ UNCHANGED artifact
    /\ image' = [image EXCEPT !.revoked = TRUE]
    /\ UNCHANGED <<resolverVars, concurrentVars, engineVars, uiVars, orchVars, delivered, video, canvas, audioBuffer, loopVars,
                   encVars, histVars>>

Next ==
    \/ convertFileWithWebCodecs
    \/ convertFileWithWebCodecsResume
    \/ VideoMetadataLoaded
    \/ VideoMetadataError
    \/ VideoSupportResult
    \/ VideoSeeked
    \/ VideoSeekFailed
    \/ VideoTimer
    \/ EncoderOutput
    \/ EncoderError
    \/ VideoFlushed
    \/ AudioRead
    \/ AudioDecoded
    \/ AudioSupportResult
    \/ AudioFlushed
    \/ ImageLoaded
    \/ ImageError
    \/ ImageExported

Spec == Init /\ [][Next]_vars

\* every enabled step of the host and of the program is eventually taken
FairSpec == Spec /\ WF_vars(Next)

(***************************************************************************)
(* The parameter resolvers are pure functions.  They are checked on their  *)
(* own: a call is drawn with its arguments, the function is applied, and   *)
(* the value it returns is recorded.                                       *)
(***************************************************************************)
Qualities == {"low", "medium", "high"}

\* frame sizes: every small frame, the usual ones, and frames of 249 and
\* 250 pixels
ResolverSizes ==
    { [width |-> w, height |-> h] : w \in 1..MaxSide, h \in 1..MaxSide } \cup
    { [width |-> 640, height |-> 480],   [width |-> 853, height |-> 480],
      [width |-> 1280, height |-> 720],  [width |-> 1920, height |-> 1080],
      [width |-> 1919, height |-> 1080], [width |-> 1921, height |-> 1080],
      [width |-> 3840, height |-> 2160], [width |-> 1080, height |-> 1920],
      [width |-> 2560, height |-> 1080], [width |-> 1000, height |-> 3],
      [width |-> 25, height |-> 10],     [width |-> 83, height |-> 3],
      [width |-> 3840, height |-> 1],    [width |-> 1, height |-> 2160] }

\* the video configurations convertVideo can be given: any of its optional
\* properties may be missing, and the quality may be a name outside the table
ResolverVideoConfigs ==
    { [format |-> "mp4"] } \cup
    { [format |-> "mp4", resolution |-> r] : r \in Buckets \cup {"original"} } \cup
    { [format |-> "mp4", quality |-> q] : q \in Qualities \cup {"ultra"} } \cup
    { [format |-> "mp4", resolution |-> r, quality |-> q] :
          r \in Buckets \cup {"original"}, q \in Qualities \cup {"ultra"} }

\* the characters of the bitrate strings: digits, the suffix, and a
\* character that is neither
BitrateChars == {"1", "2", "8", "k", "x"}

\* every string of at most MaxBitrateLen of these characters
BitrateStrings ==
    UNION { [1..n -> BitrateChars] : n \in 0..MaxBitrateLen }

\* the image configurations convertImage can be given: each of width,
\* height and quality may be missing, the quality is any integer of 1..100
ResolverImageConfigs ==
    { [format |-> "jpeg"],
      [format |-> "jpeg", width |-> 100],
      [format |-> "jpeg", height |-> 50],
      [format |-> "jpeg", width |-> 100, height |-> 50] } \cup
    { [format |-> "jpeg", quality |-> q] : q \in 1..100 } \cup
    { [format |-> "jpeg", width |-> 100, quality |-> q] : q \in 1..100 } \cup
    { [format |-> "jpeg", height |-> 50, quality |-> q] : q \in 1..100 } \cup
    { [format |-> "jpeg", width |-> 100, height |-> 50, quality |-> q] :
          q \in 1..100 }

\* every selection of the properties of a record
Selections(full) == { [f \in fields |-> full[f]] : fields \in SUBSET DOMAIN full }

\* the configurations a caller can pass: each kind is missing or holds any
\* selection of its properties
ResolverConfigs ==
    LET videos == Selections([format |-> "webm", resolution |-> "720p",
                              quality |-> "high", codec |-> "vp9"])
        audios == Selections([format |-> "aac", bitrate |-> <<"1", "2", "8", "k">>,
                              sampleRate |-> 48000])
        images == Selections([format |-> "png", quality |-> 50,
                              width |-> 100, height |-> 50])
    IN  { <<>> }
        \cup { [video |-> v] : v \in videos }
        \cup { [audio |-> a] : a \in audios }
        \cup { [image |-> i] : i \in images }
        \cup { [video |-> v, audio |-> a] : v \in videos, a \in audios }
        \cup { [video |-> v, image |-> i] : v \in videos, i \in images }
        \cup { [audio |-> a, image |-> i] : a \in audios, i \in images }
        \cup { [video |-> v, audio |-> a, image |-> i] :
                  v \in {[quality |-> "high"]}, a \in audios, i \in images }

\* codec names: those of the tables, and names the tables do not hold
VideoCodecNames == {"h264", "h265", "vp9", "av1", "H264", "mp3", ""}
AudioCodecNames == {"mp3", "aac", "ogg", "wav", "flac", "m4a", "webm", "AAC", "h264", ""}

ResolverCalls ==
    { [call |-> "getVideoCodec", codec |-> n] : n \in VideoCodecNames } \cup
    { [call |-> "getAudioCodec", format |-> n] : n \in AudioCodecNames } \cup
    { [call |-> "mergeConfig", partial |-> c] : c \in ResolverConfigs } \cup
    { [call |-> "imageExport", imageConfig |-> c,
       naturalWidth |-> sz.width, naturalHeight |-> sz.height] :
          c \in ResolverImageConfigs, sz \in ImageSizes } \cup
    { call \in { [call |-> "interleave",
                  buffer |-> [numberOfChannels |-> n, length |-> len,
                              sampleRate |-> 44100],
                  offset |-> k * frameSize] :
                     n \in 1..MaxChannels, len \in AudioLengths, k \in 0..MaxBlocks } :
          call.offset < call.buffer.length } \cup
    { [call |-> "parseBitrate", config |-> [format |-> "mp3", bitrate |-> b]] :
          b \in BitrateStrings } \cup
    { [call |-> "parseBitrate", config |-> [format |-> "mp3"]] } \cup
    { [call |-> "isWebCodecsSupported", window |-> w] : w \in SUBSET WindowApis } \cup
    { [call |-> "getBitrate", width |-> sz.width, height |-> sz.height] :
          sz \in ResolverSizes } \cup
    { [call |-> "encoderConfig", config |-> c,
       videoWidth |-> sz.width, videoHeight |-> sz.height] :
          c \in ResolverVideoConfigs, sz \in ResolverSizes }

Returned(value) == [done |-> TRUE, value |-> value]

\* isWebCodecsSupported() on a host exposing rin.window
CallIsWebCodecsSupported ==
    /\ rin.call = "isWebCodecsSupported"
    /\ ~rout.done
    /\ rout' = Returned(isWebCodecsSupported(rin.window))
    /\ UNCHANGED <<rin, conversionVars, concurrentVars, engineVars, uiVars>>

\* getBitrate(quality, width, height) for each quality of the table
CallGetBitrate ==
    /\ rin.call = "getBitrate"
    /\ ~rout.done
    /\ rout' = Returned([q \in Qualities |-> getBitrate(q, rin.width, rin.height)])
    /\ UNCHANGED <<rin, conversionVars, concurrentVars, engineVars, uiVars>>

\* the resolution scaling and the encoderConfig of convertVideo
CallResolveEncoderConfig ==
    /\ rin.call = "encoderConfig"
    /\ ~rout.done
    /\ rout' = Returned(ResolveEncoderConfig(rin.config, rin.videoWidth,
                                             rin.videoHeight))
    /\ UNCHANGED <<rin, conversionVars, concurrentVars, engineVars, uiVars>>

\* the bitrate convertAudio puts into its encoderConfig
CallParseBitrate ==
    /\ rin.call = "parseBitrate"
    /\ ~rout.done
    /\ rout' = Returned(AudioBitrate(rin.config))
    /\ UNCHANGED <<rin, conversionVars, concurrentVars, engineVars, uiVars>>

\* one pass of the block loop of convertAudio: the interleaved data
CallInterleave ==
    /\ rin.call = "interleave"
    /\ ~rout.done
    /\ rout' = Returned(InterleavedBlock(rin.buffer, rin.offset))
    /\ UNCHANGED <<rin, conversionVars, concurrentVars, engineVars, uiVars>>

\* the surface size and export quality img.onload computes
CallImageExportParameters ==
    /\ rin.call = "imageExport"
    /\ ~rout.done
    /\ rout' = Returned(ImageExportParameters(rin.imageConfig, rin.naturalWidth,
                                              rin.naturalHeight))
    /\ UNCHANGED <<rin, conversionVars, concurrentVars, engineVars, uiVars>>

\* the merge of the caller's configuration over DEFAULT_CONFIG
CallMergeConfig ==
    /\ rin.call = "mergeConfig"
    /\ ~rout.done
    /\ rout' = Returned(MergeConfig(rin.partial))
    /\ UNCHANGED <<rin, conversionVars, concurrentVars, engineVars, uiVars>>

CallGetVideoCodec ==
    /\ rin.call = "getVideoCodec"
    /\ ~rout.done
    /\ rout' = Returned(getVideoCodec(rin.codec))
    /\ UNCHANGED <<rin, conversionVars, concurrentVars, engineVars, uiVars>>

CallGetAudioCodec ==
    /\ rin.call = "getAudioCodec"
    /\ ~rout.done
    /\ rout' = Returned(getAudioCodec(rin.format))
    /\ UNCHANGED <<rin, conversionVars, concurrentVars, engineVars, uiVars>>

ResolverInit ==
    /\ rin \in ResolverCalls
    /\ rout = NoResolverResult
    /\ window = WindowApis
    /\ options = [inputFile |-> [isFile |-> TRUE, name |-> <<"clip", "mp4">>,
                                 type |-> <<"video", "mp4">>, size |-> 9]]
    /\ opc = "start"
    /\ SingleCall
    /\ PipelineInit
    /\ EngineIdle
    /\ HomeIdle

ResolverNext ==
    \/ CallIsWebCodecsSupported
    \/ CallGetBitrate
    \/ CallResolveEncoderConfig
    \/ CallParseBitrate
    \/ CallInterleave
    \/ CallImageExportParameters
    \/ CallMergeConfig
    \/ CallGetVideoCodec
    \/ CallGetAudioCodec

ResolverSpec == ResolverInit /\ [][ResolverNext]_vars


(***************************************************************************)
(* Two conversions in progress at once.  Each call of convertVideo or      *)
(* convertAudio creates its surface, its chunks array, its encoder and its *)
(* frame counter inside its own invocation; the calls take turns at their  *)
(* suspension points: the seek of a video frame, the timer between frames, *)
(* the awaits around the audio loop, and the flush.  A frame and the chunk *)
(* encoded from it are written [call, index]: the call that drew it and    *)
(* the counter value it was given.                                         *)
(***************************************************************************)
UsedSessions == { calls[c].session : c \in CallIds } \ {0}

\* one pooled session handed to every call
NewSessionPooled(used) == 1

\* document.createElement('canvas'), const chunks = [], new VideoEncoder(...)
\* and let frameCount = 0 inside the call: objects no other call holds
NewSession(used) == CHOOSE id \in SessionIds : id \notin used

SessionOf(c) == sessions[calls[c].session]

\* the call reaches its loop: it has created its session
ConcurrentStart(c) ==
    /\ calls[c].pc = "idle"
    /\ LET id == NewSession(UsedSessions)
       IN  /\ calls' = [calls EXCEPT ![c].pc = "loop", ![c].session = id]
           /\ sessions' = [sessions EXCEPT ![id] = NoSession]
    /\ UNCHANGED <<resolverVars, conversionVars, engineVars, uiVars>>

\* processFrame with frames left: video.currentTime = frameCount / frameRate
ConcurrentSeek(c) ==
    /\ calls[c].kind = "video"
    /\ calls[c].pc = "loop"
    /\ ~AllFramesProcessed(SessionOf(c).frameCount, calls[c].totalFrames)
    /\ calls' = [calls EXCEPT ![c].pc = "seeking"]
    /\ UNCHANGED <<sessions, resolverVars, conversionVars, engineVars, uiVars>>

\* video.onseeked: draw on the surface, wrap it as a frame stamped with
\* the counter, submit it, count it, schedule processFrame
ConcurrentSeeked(c) ==
    /\ calls[c].pc = "seeking"
    /\ LET id == calls[c].session
           videoFrame == [call |-> c, index |-> sessions[id].frameCount]
       IN  sessions' = [sessions EXCEPT ![id].surface = Append(@, c),
                                        ![id].queue = Append(@, videoFrame),
                                        ![id].frameCount = @ + 1]
    /\ calls' = [calls EXCEPT ![c].pc = "loop", ![c].frames = @ + 1]
    /\ UNCHANGED <<resolverVars, conversionVars, engineVars, uiVars>>

\* processFrame with no frame left: encoder.flush()
ConcurrentFlush(c) ==
    /\ calls[c].kind = "video"
    /\ calls[c].pc = "loop"
    /\ AllFramesProcessed(SessionOf(c).frameCount, calls[c].totalFrames)
    /\ calls' = [calls EXCEPT ![c].pc = "flushing"]
    /\ UNCHANGED <<sessions, resolverVars, conversionVars, engineVars, uiVars>>

\* the block loop of convertAudio, which runs without suspension, and the
\* call of encoder.flush() that follows it
ConcurrentAudioLoop(c) ==
    /\ calls[c].kind = "audio"
    /\ calls[c].pc = "loop"
    /\ LET id == calls[c].session
           blocks == [i \in 1..calls[c].totalFrames |-> [call |-> c, index |-> i - 1]]
       IN  sessions' = [sessions EXCEPT ![id].queue = @ \o blocks]
    /\ calls' = [calls EXCEPT ![c].pc = "flushing", ![c].frames = calls[c].totalFrames]
    /\ UNCHANGED <<resolverVars, conversionVars, engineVars, uiVars>>

\* the encoder of a session hands a chunk to its output callback
ConcurrentOutput(id) ==
    /\ sessions[id].queue # <<>>
    /\ sessions' = [sessions EXCEPT
                       ![id].chunks = OutputCallback(@, <<Head(sessions[id].queue)>>),
                       ![id].queue = Tail(@)]
    /\ UNCHANGED <<calls, resolverVars, conversionVars, engineVars, uiVars>>

\* the flush completes: the chunks are assembled
ConcurrentFlushed(c) ==
    /\ calls[c].pc = "flushing"
    /\ SessionOf(c).queue = <<>>
    /\ calls' = [calls EXCEPT ![c].pc = "done",
                              ![c].artifact = Assemble(SessionOf(c).chunks, "mp4").bytes]
    /\ UNCHANGED <<sessions, resolverVars, conversionVars, engineVars, uiVars>>

ConcurrentInit ==
    /\ calls \in [CallIds ->
                    { NoCall("video", TotalVideoFrames(d)) : d \in Durations } \cup
                    { NoCall("audio", TotalAudioFrames(len)) : len \in AudioLengths }]
    /\ sessions = [id \in SessionIds |-> NoSession]
    /\ rin = NoResolverCall
    /\ rout = NoResolverResult
    /\ window = WindowApis
    /\ options = [inputFile |-> [isFile |-> TRUE, name |-> <<"clip", "mp4">>,
                                 type |-> <<"video", "mp4">>, size |-> 9]]
    /\ opc = "start"
    /\ PipelineInit
    /\ EngineIdle
    /\ HomeIdle

ConcurrentNext ==
    \/ \E c \in CallIds : ConcurrentStart(c)
    \/ \E c \in CallIds : ConcurrentSeek(c)
    \/ \E c \in CallIds : ConcurrentSeeked(c)
    \/ \E c \in CallIds : ConcurrentFlush(c)
    \/ \E c \in CallIds : ConcurrentAudioLoop(c)
    \/ \E id \in SessionIds : ConcurrentOutput(id)
    \/ \E c \in CallIds : ConcurrentFlushed(c)

ConcurrentSpec == ConcurrentInit /\ [][ConcurrentNext]_vars

(***************************************************************************)
(* Properties of the pipelines.                                            *)
(***************************************************************************)
Framewise == fileType \in {"video", "audio"}

HasResult == \E i \in 1..Len(delivered) : delivered[i].kind = "result"

ChunkLengths(chs) == [i \in 1..Len(chs) |-> Len(chs[i])]

\* C1: the artifact assembled by the video or audio pipeline is the
\* concatenation of the chunks handed to the output callback, in emission
\* order; its length is the sum of the chunk lengths and cutting it at the
\* chunk boundaries gives the chunks back.
C1_ArtifactIsEmittedChunks ==
    (Framewise /\ artifact.made) =>
        /\ artifact.blob.bytes = Flatten(emitted)
        /\ Len(artifact.blob.bytes) = SumLen(emitted)
        /\ SplitAt(artifact.blob.bytes, ChunkLengths(emitted)) = emitted

\* an artifact of three chunks of differing lengths has been assembled
C1_Witness ==
    /\ Framewise /\ artifact.made
    /\ Len(emitted) = 3
    /\ Len(emitted[1]) # Len(emitted[2])

\* C2: the encoder is flushed at most once, and exactly once when an
\* artifact is assembled; the flush is requested only when every frame has
\* been submitted, no frame is submitted after the request, and the artifact
\* is assembled only after the flush has completed.
C2_FlushOnceAfterLastFrame ==
    Framewise =>
        /\ flushRequested <= 1
        /\ flushCompleted <= flushRequested
        /\ flushRequested > 0 => Len(submitted) = totalFrames
        /\ \A i \in 1..Len(submitted) : submitted[i].flushesBefore = 0
        /\ artifact.made =>
              /\ flushRequested = 1
              /\ flushCompleted = 1
              /\ artifact.flushesCompleted = 1
              /\ artifact.framesSubmitted = totalFrames

\* a conversion of several frames has delivered its result
C2_Witness ==
    /\ Framewise /\ HasResult
    /\ totalFrames >= 2
    /\ flushCompleted = 1

\* C3: the video pipeline submits the frame indices 0, 1, 2, ... in this
\* order, never more than floor(duration * 30) of them and all of them when
\* the artifact is assembled; frame i is drawn from the source at position
\* i/30 s, reached by the seek issued for frame i.
C3_FramesInOrderAfterSeek ==
    fileType = "video" =>
        /\ \A i \in 1..Len(submitted) :
              /\ submitted[i].index = i - 1
              /\ RatEq(submitted[i].pos, Rat(i - 1, 30))
              /\ \E k \in 1..Len(seeks) :
                    /\ seeks[k].frame = i - 1
                    /\ RatEq(seeks[k].pos, Rat(i - 1, 30))
        /\ Len(submitted) <= (video.duration * 30) \div 20
        /\ artifact.made => Len(submitted) = (video.duration * 30) \div 20

\* a video of three frames has been converted
C3_Witness ==
    /\ fileType = "video" /\ artifact.made
    /\ Len(submitted) = 3
    /\ video.duration = 2

\* C4: the timestamps of the submitted frames are non-decreasing; video
\* frame i carries i * (1000000 / 30) microseconds and the audio block at
\* sample offset o carries (o / sourceSampleRate) * 1000000 microseconds.
C4_TimestampsNonDecreasing ==
    /\ \A i \in 1..(Len(submitted) - 1) :
          MicrosLeq(submitted[i].timestamp, submitted[i + 1].timestamp)
    /\ fileType = "video" =>
          \A i \in 1..Len(submitted) :
             MicrosEq(submitted[i].timestamp, Micros(submitted[i].index, 30, 1000000))
    /\ fileType = "audio" =>
          \A i \in 1..Len(submitted) :
             /\ submitted[i].pos.num = (i - 1) * 1024
             /\ MicrosEq(submitted[i].timestamp,
                         Micros(submitted[i].pos.num, audioBuffer.sampleRate, 1000000))

\* three video frames have been submitted
C4_Witness ==
    /\ fileType = "video"
    /\ Len(submitted) = 3
    /\ MicrosEq(submitted[3].timestamp, Micros(2, 30, 1000000))

\* the frames of the video loop that are between the issue of their seek
\* and the call of processFrame that follows their submission
FramesInFlight ==
    (IF video.seeking /\ video.onseeked THEN 1 ELSE 0) + timers

\* C5: video frames are processed one at a time: at most one frame is in
\* its seek/draw/submit step, and when the seek for a frame is issued all
\* earlier frames have been submitted and released.
C5_FramesStrictlySequential ==
    fileType = "video" =>
        /\ FramesInFlight <= 1
        /\ \A k \in 1..Len(seeks) :
              seeks[k].frame >= 0 =>
                 /\ seeks[k].submittedBefore = seeks[k].frame
                 /\ seeks[k].open = 0

\* the seek for the third frame is pending
C5_Witness ==
    /\ fileType = "video"
    /\ video.seeking /\ video.onseeked
    /\ frameCount = 2

\* C6: when the support query reports the configuration as unsupported the
\* pipeline rejects with the unsupported-codec error and has created no
\* encoder, issued no seek and submitted no frame.
C6_UnsupportedCodecBeforeFrameWork ==
    "UnsupportedCodec" \in failed =>
        /\ promise.state = "rejected"
        /\ promise.reason \in {"Video codec is not supported",
                               "Audio codec is not supported"}
        /\ enc.state = "none"
        /\ seeks = <<>>
        /\ submitted = <<>>
        /\ flushRequested = 0
        /\ ~HasResult

\* an unsupported configuration has been reported to the caller
C6_Witness ==
    /\ "UnsupportedCodec" \in failed
    /\ Len(delivered) = 1
    /\ delivered[1].kind = "error"

\* C7: every encoder created by a conversion has been flushed and released
\* when the call settles.
C7_EncoderReleasedOnSettle ==
    (delivered # <<>> /\ enc.state # "none") =>
        /\ enc.state = "closed"
        /\ flushRequested >= 1

\* C8: a result is delivered only when no step of the conversion failed,
\* and it is the artifact assembled after every frame was submitted and the
\* flush completed.
C8_NoPartialOutput ==
    \A i \in 1..Len(delivered) :
        delivered[i].kind = "result" =>
            /\ failed = {}
            /\ artifact.made
            /\ delivered[i].file = artifact.blob
            /\ Framewise =>
                  /\ artifact.framesSubmitted = totalFrames
                  /\ artifact.flushesCompleted = 1
                  /\ Len(submitted) = totalFrames
                  /\ artifact.blob.bytes = Flatten(emitted)

\* a failed conversion that had already collected chunks has been reported
C8_Witness ==
    /\ Len(delivered) = 1
    /\ delivered[1].kind = "error"
    /\ "EncodeFailure" \in failed
    /\ chunks # <<>>

\* C9: a call delivers at most one terminal signal.
C9_AtMostOneTerminalSignal == Len(delivered) <= 1

\* the encoder failed during the flush, so that both the error callback and
\* the rejected flush called reject, and the caller has its one signal
C9_Witness ==
    /\ Len(delivered) = 1
    /\ "EncodeFailure" \in failed
    /\ flushRequested = 1
    /\ promise.reactions = 0

\* C10: every call eventually settles.
C10_EventuallySettles == <>(delivered # <<>>)


(***************************************************************************)
(* Properties of the orchestrator.                                         *)
(***************************************************************************)
MediaKinds == {"video", "audio", "image"}

UnsupportedEnvironmentSignal ==
    ErrorSignal(<<"WebCodecs is not supported in this browser">>)

NoPipelineStarted ==
    /\ dispatched = <<>>
    /\ ppc = "none"
    /\ promise = NewPromise
    /\ video.state = "none"
    /\ image.state = "none"
    /\ enc.state = "none"

\* C11: when one of the four primitives is missing the call fails with the
\* unsupported-environment error and has neither merged the configuration
\* nor detected the kind nor started a pipeline, whatever the input is.
C11_CapabilityGateFirst ==
    (opc # "start" /\ window # WindowApis) =>
        /\ delivered = <<UnsupportedEnvironmentSignal>>
        /\ opc = "done"
        /\ mergedConfig = DEFAULT_CONFIG
        /\ fileType = ""
        /\ outputFormat = ""
        /\ NoPipelineStarted

\* an image with overridden settings has been rejected on a host that only
\* lacks the audio encoder
C11_Witness ==
    /\ window = WindowApis \ {"AudioEncoder"}
    /\ options.inputFile.type = <<"image", "png">>
    /\ Has(options, "config") /\ Has(options.config, "image")
    /\ delivered = <<UnsupportedEnvironmentSignal>>

\* the format the caller overrides for a kind, or that kind's fixed default
ExpectedDefaultFormat(kind) ==
    LET over == IF Has(options, "config") /\ Has(options.config, kind)
                THEN options.config[kind] ELSE <<>>
    IN  IF Has(over, "format") THEN over.format
        ELSE CASE kind = "video" -> "mp4"
               [] kind = "audio" -> "mp3"
               [] kind = "image" -> "jpeg"

\* C13: the resolved output format is the caller's targetFormat when one is
\* given, else the caller's format override for the detected kind, else the
\* default of that kind (video mp4, audio mp3, image jpeg).
C13_OutputFormatResolution ==
    dispatched # <<>> =>
        LET expected == IF Has(options, "targetFormat") THEN options.targetFormat
                        ELSE ExpectedDefaultFormat(fileType)
        IN  /\ outputFormat = expected
            /\ dispatched[1].targetFormat = expected

\* an audio input without target format whose configuration overrides the
\* audio format
C13_Witness ==
    /\ dispatched # <<>>
    /\ fileType = "audio"
    /\ ~Has(options, "targetFormat")
    /\ Has(options, "config") /\ Has(options.config, "audio")
    /\ outputFormat = "aac"

\* C14: for a detected kind the orchestrator starts exactly one pipeline,
\* the one of that kind, with the resolved output format and the merged
\* configuration of that kind; a video/mp4 input with no target format and
\* no configuration starts the video pipeline with mp4 and quality medium.
C14_DispatchMatchesKind ==
    (opc # "start" /\ fileType \in MediaKinds) =>
        /\ Len(dispatched) = 1
        /\ dispatched[1].pipeline = fileType
        /\ dispatched[1].targetFormat = outputFormat
        /\ dispatched[1].config = mergedConfig[fileType]
        /\ mergedConfig = [k \in MediaKinds |->
                             [f \in DOMAIN DEFAULT_CONFIG[k] \cup
                                    (IF Has(options, "config") /\ Has(options.config, k)
                                     THEN DOMAIN options.config[k] ELSE {}) |->
                                IF Has(options, "config") /\ Has(options.config, k)
                                   /\ Has(options.config[k], f)
                                THEN options.config[k][f] ELSE DEFAULT_CONFIG[k][f]]]
        /\ (video.state # "none") <=> (fileType = "video")
        /\ (image.state # "none") <=> (fileType = "image")
        /\ (ppc \in {"a_read", "a_decode", "a_support", "a_flush", "a_failed", "a_done"})
              <=> (fileType = "audio")
        /\ (options = [inputFile |-> [isFile |-> TRUE, name |-> <<"clip", "mp4">>,
                                      type |-> <<"video", "mp4">>, size |-> 9]]) =>
              /\ dispatched[1].pipeline = "video"
              /\ dispatched[1].targetFormat = "mp4"
              /\ dispatched[1].config.quality = "medium"

\* a video input with overridden video settings has reached its encoder
\* configuration
C14_Witness ==
    /\ fileType = "video"
    /\ Len(dispatched) = 1
    /\ dispatched[1].config.quality = "high"
    /\ ppc = "v_support"

\* an input file whose kind neither its MIME type nor its extension gives
Unresolvable(file) ==
    /\ ~(Len(file.type) >= 2 /\ file.type[1] \in MediaKinds)
    /\ ~(/\ file.isFile
         /\ file.type = <<>>
         /\ file.name # <<>>
         /\ toLowerCase(Last(file.name)) \in
               {"mp4", "webm", "avi", "mov", "mkv", "flv",
                "mp3", "wav", "aac", "ogg", "flac", "m4a",
                "jpg", "jpeg", "png", "gif", "webp", "bmp"})

\* C15: when the kind of the input cannot be resolved the call fails with
\* the unsupported-file-type error and starts no pipeline and no encoder.
C15_UnknownTypeRejected ==
    (/\ opc # "start"
     /\ window = WindowApis
     /\ ~Has(options, "autoDetect")
     /\ Unresolvable(options.inputFile)) =>
        /\ delivered = <<ErrorSignal(<<"Unsupported file type">>)>>
        /\ opc = "done"
        /\ fileType = "unknown"
        /\ NoPipelineStarted

\* a file without type and without known extension has been rejected
C15_Witness ==
    /\ options.inputFile.name = <<"README">>
    /\ ~Has(options, "autoDetect")
    /\ delivered = <<ErrorSignal(<<"Unsupported file type">>)>>

\* the failures a dispatched pipeline can meet
PipelineFailures ==
    {"UnsupportedCodec", "DecodeFailure", "EncodeFailure", "AssemblyFailure"}

\* C16: every failure inside a dispatched pipeline reaches the caller as
\* one error "Conversion failed: <cause>".
C16_PipelineFailuresReachCaller ==
    (dispatched # <<>> /\ failed \cap PipelineFailures # {})
        ~> (/\ Len(delivered) = 1
            /\ delivered[1].kind = "error"
            /\ delivered[1].message = <<"Conversion failed: ", promise.reason>>)


(***************************************************************************)
(* Properties of the parameter resolvers.                                  *)
(***************************************************************************)
Called(fn) == rin.call = fn /\ rout.done

\* C12: isWebCodecsSupported() is true exactly when the video decoder, the
\* video encoder, the audio decoder and the audio encoder are all present,
\* for each of the sixteen hosts, and the call changes nothing but its
\* return value.
C12_SupportIsConjunction ==
    [][ rin.call = "isWebCodecsSupported" =>
          /\ rout'.done
          /\ rout'.value = (/\ "VideoDecoder" \in rin.window
                            /\ "VideoEncoder" \in rin.window
                            /\ "AudioDecoder" \in rin.window
                            /\ "AudioEncoder" \in rin.window)
          /\ UNCHANGED <<rin, conversionVars, concurrentVars, engineVars, uiVars>> ]_vars

\* the probe has answered no on a host that lacks only the audio decoder
C12_Witness ==
    /\ Called("isWebCodecsSupported")
    /\ rin.window = WindowApis \ {"AudioDecoder"}
    /\ rout.value = FALSE

\* C17 as stated: at every resolution the bitrate of low is below that of
\* medium, which is below that of high.
C17_StrictlyIncreasing ==
    Called("getBitrate") =>
        /\ rout.value["low"] < rout.value["medium"]
        /\ rout.value["medium"] < rout.value["high"]

\* C17: at every resolution the bitrate does not decrease from low to
\* medium to high, and it increases strictly when the frame has at least
\* 250 pixels.
C17_IncreasingFrom250Pixels ==
    Called("getBitrate") =>
        /\ rout.value["low"] <= rout.value["medium"]
        /\ rout.value["medium"] <= rout.value["high"]
        /\ (rin.width * rin.height >= 250) =>
              /\ rout.value["low"] < rout.value["medium"]
              /\ rout.value["medium"] < rout.value["high"]

\* the three bitrates of a frame of exactly 250 pixels
C17_Witness ==
    /\ Called("getBitrate")
    /\ rin.width = 25 /\ rin.height = 10
    /\ rout.value["low"] = 1000
    /\ rout.value["medium"] = 2000
    /\ rout.value["high"] = 3000

\* k = Math.round(p / q): k - 1/2 <= p / q < k + 1/2
IsRound(k, p, q) == q * (2 * k - 1) <= 2 * p /\ 2 * p < q * (2 * k + 1)

ScalingBucket ==
    IF Has(rin.config, "resolution") /\ rin.config.resolution # "original"
    THEN CASE rin.config.resolution = "720p"  -> <<1280, 720>>
           [] rin.config.resolution = "1080p" -> <<1920, 1080>>
           [] rin.config.resolution = "4k"    -> <<3840, 2160>>
    ELSE <<>>

\* C19: a source wider than the bucket gets the bucket width and the height
\* round(width / r), any other source gets the bucket height and the width
\* round(height * r); without a bucket the source size is kept; a source of
\* the bucket's aspect ratio gets the bucket size, 1920x1080 into 720p gives
\* 1280x720.
C19_BucketScaling ==
    Called("encoderConfig") =>
        LET vw == rin.videoWidth
            vh == rin.videoHeight
            w == rout.value.width
            h == rout.value.height
            b == ScalingBucket
        IN  /\ (b = <<>>) => (w = vw /\ h = vh)
            /\ (b # <<>>) =>
                  /\ (vw * b[2] > b[1] * vh) =>
                        (w = b[1] /\ IsRound(h, b[1] * vh, vw))
                  /\ (vw * b[2] <= b[1] * vh) =>
                        (h = b[2] /\ IsRound(w, b[2] * vw, vh))
                  /\ (vw * b[2] = b[1] * vh) => (w = b[1] /\ h = b[2])
            /\ (vw = 1920 /\ vh = 1080 /\ b = <<1280, 720>>) =>
                  (w = 1280 /\ h = 720)

\* 1920x1080 has been scaled into the 720p bucket
C19_Witness ==
    /\ Called("encoderConfig")
    /\ rin.videoWidth = 1920 /\ rin.videoHeight = 1080
    /\ ScalingBucket = <<1280, 720>>
    /\ rout.value.width = 1280 /\ rout.value.height = 720

Abs(x) == IF x < 0 THEN -x ELSE x

\* C20: for every bucket and source size one resolved dimension is the
\* bucket's and the other is less than one pixel away from the value that
\* keeps the source aspect ratio exactly.
C20_AspectWithinOnePixel ==
    (Called("encoderConfig") /\ ScalingBucket # <<>>) =>
        LET vw == rin.videoWidth
            vh == rin.videoHeight
            w == rout.value.width
            h == rout.value.height
            b == ScalingBucket
        IN  \/ w = b[1] /\ Abs(h * vw - w * vh) < vw
            \/ h = b[2] /\ Abs(w * vh - h * vw) < vh

\* a source whose scaled width is not a whole number: 1080 * 853 / 480 is
\* 1919.25
C20_Witness ==
    /\ Called("encoderConfig")
    /\ rin.videoWidth = 853 /\ rin.videoHeight = 480
    /\ ScalingBucket = <<1920, 1080>>
    /\ rout.value.width = 1919 /\ rout.value.height = 1080


\* the value of a string of decimal digits
DecimalValue(digits) ==
    LET v[i \in 0..Len(digits)] ==
            IF i = 0 THEN 0 ELSE 10 * v[i - 1] + DigitValue(digits[i])
    IN  v[Len(digits)]

IsDigits(str) == str # <<>> /\ \A i \in 1..Len(str) : str[i] \in Digits

AudioLoopCompleted ==
    /\ dispatched # <<>>
    /\ dispatched[1].pipeline = "audio"
    /\ flushRequested >= 1

\* C22: a buffer of L samples per channel is submitted as ceil(L / 1024)
\* consecutive blocks at offsets 0, 1024, 2048, ...; every block but the
\* last has 1024 samples per channel, the last has the rest, the sizes sum
\* to L and every sample lies in exactly one block.
C22_BlocksPartitionBuffer ==
    AudioLoopCompleted =>
        LET L == audioBuffer.length
            n == Len(submitted)
            total[i \in 0..n] ==
                IF i = 0 THEN 0 ELSE total[i - 1] + submitted[i].size
        IN  /\ n * 1024 >= L
            /\ (n - 1) * 1024 < L
            /\ \A i \in 1..n :
                  /\ submitted[i].pos = [num |-> 1024 * (i - 1), den |-> 1]
                  /\ submitted[i].size = IF i < n THEN 1024 ELSE L - 1024 * (n - 1)
                  /\ submitted[i].size >= 1
            /\ total[n] = L
            /\ \A sample \in 0..(L - 1) :
                  Cardinality({ i \in 1..n :
                                  /\ submitted[i].pos.num <= sample
                                  /\ sample < submitted[i].pos.num + submitted[i].size }) = 1

\* a buffer of one whole block and one more sample has been submitted
C22_Witness ==
    /\ AudioLoopCompleted
    /\ audioBuffer.length = 1025
    /\ Len(submitted) = 2
    /\ submitted[2].size = 1


\* C23: for N channels and a block of F sample frames the interleaved
\* buffer has length N * F and its element at index f * N + c is sample
\* blockOffset + f of channel c.
C23_InterleavedLayout ==
    Called("interleave") =>
        LET N == rin.buffer.numberOfChannels
            rest == rin.buffer.length - rin.offset
            F == IF rest < 1024 THEN rest ELSE 1024
        IN  /\ Len(rout.value) = N * F
            /\ \A f \in 0..(F - 1), c \in 0..(N - 1) :
                  rout.value[f * N + c + 1] = <<c, rin.offset + f>>

\* the first block of a two-channel buffer of 1025 samples
C23_Witness ==
    /\ Called("interleave")
    /\ rin.buffer.numberOfChannels = 2
    /\ rin.buffer.length = 1025
    /\ rin.offset = 0
    /\ Len(rout.value) = 2048
    /\ rout.value[4] = <<1, 1>>


\* C24: the surface of the image pipeline has the configured width and
\* height, each replaced by the natural dimension of the source when it is
\* not configured, and the export factor is quality / 100 for every quality
\* of 1..100 and 0.85 without one; width 100, height 50, quality 50 give a
\* 100x50 surface and the factor 0.5.
C24_ImageSurfaceAndFactor ==
    Called("imageExport") =>
        LET config == rin.imageConfig
            export == rout.value
        IN  /\ export.width = IF Has(config, "width") THEN config.width
                              ELSE rin.naturalWidth
            /\ export.height = IF Has(config, "height") THEN config.height
                               ELSE rin.naturalHeight
            /\ Has(config, "quality") =>
                  export.quality.num * 100 = config.quality * export.quality.den
            /\ ~Has(config, "quality") =>
                  export.quality.num * 100 = 85 * export.quality.den
            /\ (config = [format |-> "jpeg", width |-> 100, height |-> 50,
                          quality |-> 50]) =>
                  /\ export.width = 100
                  /\ export.height = 50
                  /\ export.quality.num * 2 = export.quality.den

\* the export parameters of width 100, height 50, quality 50
C24_Witness ==
    /\ Called("imageExport")
    /\ rin.imageConfig = [format |-> "jpeg", width |-> 100, height |-> 50,
                          quality |-> 50]
    /\ rout.value.width = 100
    /\ rout.value.height = 50
    /\ rout.value.quality = [num |-> 50, den |-> 100]


ImageDispatched == dispatched # <<>> /\ dispatched[1].pipeline = "image"

\* what the promise of the image pipeline holds at each point of the call
ImageOutcome ==
    /\ (promise.state = "pending") <=> (ppc \in {"i_load", "i_export"})
    /\ (promise.state = "fulfilled") =>
          /\ ppc = "i_done"
          /\ promise.value.bytes # <<>>
          /\ artifact.made /\ promise.value = artifact.blob
          /\ failed = {}
    /\ (promise.state = "rejected") =>
          /\ ppc = "i_failed"
          /\ ~artifact.made
          /\ \/ /\ promise.reason = "Failed to convert image"
                /\ failed = {"AssemblyFailure"}
                /\ image.state = "loaded"
             \/ /\ promise.reason = "Failed to load image"
                /\ failed = {"DecodeFailure"}
                /\ image.state = "error"

\* C25: the image pipeline settles exactly once: it eventually settles, a
\* settled promise never changes, it is fulfilled with the exported blob,
\* which is never empty, rejected with the assembly failure when the export
\* gives no data and with the load failure when the source cannot be
\* decoded.
C25_ImageSettlesOnce ==
    /\ [](ImageDispatched => ImageOutcome)
    /\ [][ (ImageDispatched /\ promise.state # "pending") =>
              /\ promise'.state = promise.state
              /\ promise'.value = promise.value
              /\ promise'.reason = promise.reason ]_vars
    /\ (ImageDispatched ~> (promise.state # "pending"))

\* the export gave no data and the call has been told so
C25_Witness ==
    /\ ImageDispatched
    /\ promise.state = "rejected"
    /\ promise.reason = "Failed to convert image"
    /\ delivered # <<>>


\* the fixed defaults: video mp4/original/medium/h264, audio mp3/256k/44100,
\* image jpeg/85
FixedDefaults(kind) ==
    CASE kind = "video" -> [format |-> "mp4", resolution |-> "original",
                            quality |-> "medium", codec |-> "h264"]
      [] kind = "audio" -> [format |-> "mp3", bitrate |-> <<"2", "5", "6", "k">>,
                            sampleRate |-> 44100]
      [] kind = "image" -> [format |-> "jpeg", quality |-> 85]

\* C26: in the merged configuration every field of every kind has the
\* caller's value when the caller gave that field and the fixed default
\* otherwise, and a kind the caller gave no settings for has exactly its
\* defaults.
C26_MergePerKindPerField ==
    Called("mergeConfig") =>
        \A kind \in MediaKinds :
            LET given == IF kind \in DOMAIN rin.partial THEN rin.partial[kind]
                         ELSE <<>>
                merged == rout.value[kind]
            IN  /\ DOMAIN merged = DOMAIN FixedDefaults(kind) \cup DOMAIN given
                /\ \A field \in DOMAIN merged :
                      merged[field] = IF field \in DOMAIN given THEN given[field]
                                      ELSE FixedDefaults(kind)[field]
                /\ (kind \notin DOMAIN rin.partial) => merged = FixedDefaults(kind)

\* only an audio bitrate was given: the other audio fields and the other
\* kinds have their defaults
C26_Witness ==
    /\ Called("mergeConfig")
    /\ rin.partial = [audio |-> [bitrate |-> <<"1", "2", "8", "k">>]]
    /\ rout.value.audio = [format |-> "mp3", bitrate |-> <<"1", "2", "8", "k">>,
                           sampleRate |-> 44100]
    /\ rout.value.video = [format |-> "mp4", resolution |-> "original",
                           quality |-> "medium", codec |-> "h264"]
    /\ rout.value.image = [format |-> "jpeg", quality |-> 85]


(***************************************************************************)
(* Properties of the result.                                               *)
(***************************************************************************)
\* C27: a delivered result names the resolved output format, the byte size
\* of the input, the byte size of the blob it carries, and the source name
\* with its extension replaced by the format: a name without extension
\* gets the format appended and an unnamed input is called converted_file.
C27_ResultDescriptor ==
    \A i \in 1..Len(delivered) :
        delivered[i].kind = "result" =>
            LET result == delivered[i]
                input == options.inputFile
                name == input.name
                format == IF Has(options, "targetFormat") THEN options.targetFormat
                          ELSE ExpectedDefaultFormat(fileType)
            IN  /\ result.format = format
                /\ result.format = outputFormat
                /\ result.originalSize = input.size
                /\ result.file = artifact.blob
                /\ result.convertedSize = Len(result.file.bytes)
                /\ result.filename =
                     IF ~input.isFile THEN <<"converted_file", format>>
                     ELSE IF Len(name) = 1 THEN <<name[1], format>>
                     ELSE [k \in 1..Len(name) |->
                              IF k < Len(name) THEN name[k] ELSE format]

\* a name without extension, converted as video, is called README.mp4
C27_Witness ==
    /\ Len(delivered) = 1
    /\ delivered[1].kind = "result"
    /\ options.inputFile.name = <<"README">>
    /\ delivered[1].filename = <<"README", "mp4">>
    /\ delivered[1].convertedSize > 0


\* C30: once the error callback of the video encoder has fired, the frame
\* loop issues no further seek, submits no further frame and requests no
\* flush.
C30_EncoderErrorStopsLoop ==
    [][ (enc.kind = "video" /\ "EncodeFailure" \in failed) =>
          /\ seeks' = seeks
          /\ submitted' = submitted
          /\ flushRequested' = flushRequested ]_vars


C28_SessionsNotShared ==
    \A c \in CallIds :
        calls[c].pc # "idle" =>
            /\ \A d \in CallIds \ {c} :
                  calls[d].pc # "idle" => calls[d].session # calls[c].session
            /\ \A k \in 1..Len(SessionOf(c).surface) : SessionOf(c).surface[k] = c
            /\ (calls[c].kind = "video") => SessionOf(c).frameCount = calls[c].frames
            /\ \A k \in 1..Len(SessionOf(c).chunks) :
                  SessionOf(c).chunks[k][1].call = c
            /\ (calls[c].pc = "done") =>
                  calls[c].artifact =
                     [i \in 1..calls[c].totalFrames |-> [call |-> c, index |-> i - 1]]

\* both calls are in the middle of their loops, and the first one is
\* waiting for a seek while chunks of the second arrive
C28_Witness ==
    /\ calls[1].pc = "seeking"
    /\ calls[1].frames = 1
    /\ calls[2].pc \in {"seeking", "flushing"}
    /\ calls[2].frames >= 1
    /\ SessionOf(1).chunks # <<>>
    /\ SessionOf(2).chunks # <<>>


(***************************************************************************)
(* Further properties of the orchestrator and of the scaling.              *)
(***************************************************************************)
\* C31: with autoDetect = false an input of kind video, audio or image (the
\* kind its type declares) is dispatched to the pipeline of that kind, and
\* without a target format the output format is the default of that kind.
C31_DeclaredKindDispatched ==
    (/\ opc # "start"
     /\ window = WindowApis
     /\ Has(options, "autoDetect") /\ ~options.autoDetect
     /\ Len(options.inputFile.type) >= 2
     /\ options.inputFile.type[1] \in MediaKinds) =>
        LET declared == options.inputFile.type[1]
        IN  /\ Len(dispatched) = 1
            /\ dispatched[1].pipeline = declared
            /\ ~Has(options, "targetFormat") =>
                  outputFormat = (CASE declared = "video" -> "mp4"
                                    [] declared = "audio" -> "mp3"
                                    [] declared = "image" -> "jpeg")


\* C32: for every bucket and every source of positive width and height the
\* resolved size lies inside the bucket, has a width and a height of at
\* least 1, and has the bucket's width or the bucket's height.
C32_SizeInsideBucket ==
    (Called("encoderConfig") /\ ScalingBucket # <<>>
        /\ rin.videoWidth >= 1 /\ rin.videoHeight >= 1) =>
        LET w == rout.value.width
            h == rout.value.height
            b == ScalingBucket
        IN  /\ 1 <= w /\ w <= b[1]
            /\ 1 <= h /\ h <= b[2]
            /\ w = b[1] \/ h = b[2]


(***************************************************************************)
(* The command-string backend: lib/ffmpeg.ts, convertFile of               *)
(* lib/format-converter.ts and processVideo of lib/video-processing.ts.    *)
(* The module keeps one engine handle and one flag; every call is an async *)
(* function that gives way at each await, so the steps of several calls    *)
(* interleave.  An FFmpeg object runs its commands one after the other in  *)
(* the order they were issued: the effect of writeFile, exec and readFile  *)
(* is taken where the call is issued, and the caller resumes in a later    *)
(* step.  The engine a call creates is numbered after the call.  A file in *)
(* an engine's memory is written [name, from]: from is the call whose      *)
(* input the bytes are, or were made from.  The page runs in a browser     *)
(* (typeof window is never 'undefined').                                    *)
(***************************************************************************)
FFmpegInputs ==
    { f \in InputFiles : f.name \in {<<"clip", "mp4">>, <<"movie", "MOV">>, <<"README">>} }

FFmpegFormats == {NoFormat, "webm"}

\* format-converter.ts has its own copy of the defaults
FFmpegDefaultConfig ==
    [video |-> [format |-> "mp4", resolution |-> "original",
                quality |-> "medium", codec |-> "h264"],
     audio |-> [format |-> "mp3", bitrate |-> <<"2", "5", "6", "k">>, sampleRate |-> 44100],
     image |-> [format |-> "jpeg", quality |-> 85]]

\* format-converter.ts has its own copy of the detection
FFmpegDetectFileType(file) ==
    LET mimeType == file.type
        extension == IF file.isFile /\ file.name # <<>>
                     THEN toLowerCase(Last(file.name)) ELSE ""
        videoExts == {"mp4", "webm", "avi", "mov", "mkv", "flv"}
        audioExts == {"mp3", "wav", "aac", "ogg", "flac", "m4a"}
        imageExts == {"jpg", "jpeg", "png", "gif", "webp", "bmp"}
        byExtension == file.isFile /\ mimeType = <<>> /\ extension # ""
    IN  IF byExtension /\ extension \in videoExts THEN "video"
        ELSE IF byExtension /\ extension \in audioExts THEN "audio"
        ELSE IF byExtension /\ extension \in imageExts THEN "image"
        ELSE IF StartsWithMajor(mimeType, "video") THEN "video"
        ELSE IF StartsWithMajor(mimeType, "audio") THEN "audio"
        ELSE IF StartsWithMajor(mimeType, "image") THEN "image"
        ELSE "unknown"

\* inputFile instanceof File ? inputFile.name.split('.').pop() || 'mp4' : 'mp4'
InputExt(inputFile) ==
    IF inputFile.isFile /\ inputFile.name # <<>> /\ Last(inputFile.name) # ""
    THEN Last(inputFile.name) ELSE "mp4"

\* mimeTypeMap[outputFormat] || 'application/octet-stream'
FFmpegMimeType(format) ==
    CASE format \in {"mp4", "webm", "avi"} -> <<"video", format>>
      [] format = "mov" -> <<"video", "quicktime">>
      [] format = "mp3" -> <<"audio", "mpeg">>
      [] format \in {"wav", "aac", "ogg"} -> <<"audio", format>>
      [] format \in {"jpeg", "jpg"} -> <<"image", "jpeg">>
      [] format \in {"png", "webp", "gif"} -> <<"image", format>>
      [] OTHER -> <<"application", "octet-stream">>

FileAt(files, name) == { f \in files : f.name = name }

\* ffmpeg.writeFile(name, data): the file of that name is replaced
WriteFile(files, name, from) ==
    { f \in files : f.name # name } \cup { [name |-> name, from |-> from] }

\* ffmpeg.exec(['-i', input, ..., output]): the output is made from what the
\* input file holds when the command runs
Exec(files, input, output) ==
    IF FileAt(files, input) = {} THEN files
    ELSE WriteFile(files, output, (CHOOSE f \in FileAt(files, input) : TRUE).from)

\* an FFmpeg object takes commands once its load has completed and until
\* it is terminated; null takes none
Usable(e) == e # 0 /\ engines[e].state = "loaded"

\* the async function throws: its promise rejects
Rejected(task, reason) ==
    [task EXCEPT !.pc = "done", !.state = "rejected", !.reason = reason]

\* getFFmpeg returns engine: a bare call settles with it, convertFile and
\* processVideo go on to inputFile.arrayBuffer()
getFFmpegReturn(task, engine) ==
    IF task.op = "getFFmpeg"
    THEN [task EXCEPT !.pc = "done", !.state = "fulfilled", !.handle = engine]
    ELSE [task EXCEPT !.pc = "arrayBuffer", !.handle = engine]

\* if (ffmpeg && isLoaded) return ffmpeg; otherwise the try block starts
\* and waits for the dynamic imports
getFFmpegEntry(task) ==
    IF ffmpeg # 0 /\ isLoaded THEN getFFmpegReturn(task, ffmpeg)
    ELSE [task EXCEPT !.pc = "import"]

\* calls are numbered in the order they are made
NextTask(t) == tasks[t].op = "none" /\ \A u \in TaskIds : u < t => tasks[u].op # "none"

backendFrame == UNCHANGED <<resolverVars, conversionVars, concurrentVars, uiVars>>

\* a caller calls getFFmpeg()
getFFmpeg(t) ==
    /\ NextTask(t)
    /\ tasks' = [tasks EXCEPT ![t] = getFFmpegEntry([NoTask EXCEPT !.op = "getFFmpeg"])]
    /\ UNCHANGED <<ffmpeg, isLoaded, engines, progress>>
    /\ backendFrame

\* the dynamic imports are in: ffmpeg = new FFmpeg(), and ffmpeg.load is
\* looked up on that object before its arguments wait for toBlobURL
FFmpegImported(t) ==
    /\ tasks[t].pc = "import"
    /\ ffmpeg' = t
    /\ engines' = [engines EXCEPT ![t] = [NoEngine EXCEPT !.state = "created"]]
    /\ tasks' = [tasks EXCEPT ![t].pc = "urls"]
    /\ UNCHANGED <<isLoaded, progress>>
    /\ backendFrame

\* the blob URLs are in: load() is called on the object this call created
FFmpegLoadCalled(t) ==
    /\ tasks[t].pc = "urls"
    /\ engines' = [engines EXCEPT ![t].state = "loading"]
    /\ tasks' = [tasks EXCEPT ![t].pc = "load"]
    /\ UNCHANGED <<ffmpeg, isLoaded, progress>>
    /\ backendFrame

\* load() fulfils: isLoaded = true; return ffmpeg
FFmpegLoaded(t) ==
    /\ tasks[t].pc = "load"
    /\ engines[t].state = "loading"
    /\ engines' = [engines EXCEPT ![t].state = "loaded"]
    /\ isLoaded' = TRUE
    /\ tasks' = [tasks EXCEPT ![t] = getFFmpegReturn(@, ffmpeg)]
    /\ UNCHANGED <<ffmpeg, progress>>
    /\ backendFrame

\* an import, a toBlobURL or load() rejects (load() does when the object is
\* terminated under it): catch, throw new Error('Failed to initialize ...')
FFmpegLoadFailed(t) ==
    /\ tasks[t].pc \in {"import", "urls", "load"}
    /\ engines' = [engines EXCEPT ![t].state = IF @ = "loading" THEN "failed" ELSE @]
    /\ tasks' = [tasks EXCEPT ![t] = Rejected(@, "Failed to initialize video processing engine")]
    /\ UNCHANGED <<ffmpeg, isLoaded, progress>>
    /\ backendFrame

\* if (ffmpeg) { ffmpeg.terminate(); ffmpeg = null; isLoaded = false }
unloadFFmpeg ==
    /\ ffmpeg # 0
    /\ engines' = [engines EXCEPT ![ffmpeg].state = "terminated"]
    /\ ffmpeg' = 0
    /\ isLoaded' = FALSE
    /\ UNCHANGED <<tasks, progress>>
    /\ backendFrame

\* convertFile(options) up to await getFFmpeg()
convertFile(t) ==
    /\ NextTask(t)
    /\ \E inputFile \in FFmpegInputs, format \in FFmpegFormats :
          LET task == [NoTask EXCEPT !.op = "convertFile", !.inputFile = inputFile,
                                     !.targetFormat = format]
          IN  tasks' = [tasks EXCEPT ![t] =
                           IF FFmpegDetectFileType(inputFile) = "unknown"
                           THEN Rejected(task, "Unsupported file type")
                           ELSE getFFmpegEntry(task)]
    /\ UNCHANGED <<ffmpeg, isLoaded, engines, progress>>
    /\ backendFrame

\* the bytes of the input are in: ffmpeg.writeFile(`input.${inputExt}`, inputData)
ConvertWrite(t) ==
    /\ tasks[t].op = "convertFile"
    /\ tasks[t].pc = "arrayBuffer"
    /\ LET h == tasks[t].handle
           name == <<"input", InputExt(tasks[t].inputFile)>>
       IN  IF Usable(h)
           THEN /\ engines' = [engines EXCEPT ![h].files = WriteFile(@, name, t)]
                /\ tasks' = [tasks EXCEPT ![t].pc = "written", ![t].inputName = name]
           ELSE /\ tasks' = [tasks EXCEPT ![t] = Rejected(@, "engine not loaded")]
                /\ UNCHANGED engines
    /\ UNCHANGED <<ffmpeg, isLoaded, progress>>
    /\ backendFrame

\* the write is done: outputFormat, the command with its file names, and
\* ffmpeg.exec(finalCommand)
ConvertExec(t) ==
    /\ tasks[t].op = "convertFile"
    /\ tasks[t].pc = "written"
    /\ LET h == tasks[t].handle
           kind == FFmpegDetectFileType(tasks[t].inputFile)
           format == IF tasks[t].targetFormat # NoFormat THEN tasks[t].targetFormat
                     ELSE FFmpegDefaultConfig[kind].format
           name == <<"output", format>>
       IN  IF Usable(h)
           THEN /\ engines' = [engines EXCEPT ![h].files = Exec(@, tasks[t].inputName, name)]
                /\ tasks' = [tasks EXCEPT ![t].pc = "exec", ![t].outputName = name]
           ELSE /\ tasks' = [tasks EXCEPT ![t] = Rejected(@, "engine not loaded")]
                /\ UNCHANGED engines
    /\ UNCHANGED <<ffmpeg, isLoaded, progress>>
    /\ backendFrame

\* the command is done: ffmpeg.readFile(`output.${outputFormat}`), and the
\* result is built from what it read
ConvertRead(t) ==
    /\ tasks[t].op = "convertFile"
    /\ tasks[t].pc = "exec"
    /\ LET h == tasks[t].handle
           format == tasks[t].outputName[2]
       IN  IF Usable(h) /\ FileAt(engines[h].files, tasks[t].outputName) # {}
           THEN LET data == CHOOSE f \in FileAt(engines[h].files, tasks[t].outputName) : TRUE
                IN  tasks' = [tasks EXCEPT
                        ![t].pc = "done", ![t].state = "fulfilled", ![t].data = data.from,
                        ![t].blob = [from |-> data.from, type |-> FFmpegMimeType(format)],
                        ![t].filename = generateOutputFilename(tasks[t].inputFile, format)]
           ELSE tasks' = [tasks EXCEPT ![t] = Rejected(@, "engine not loaded")]
    /\ UNCHANGED <<ffmpeg, isLoaded, engines, progress>>
    /\ backendFrame

ClipFile == CHOOSE f \in InputFiles : f.name = <<"clip", "mp4">>

\* processVideo(options, onProgress) up to await getFFmpeg()
processVideo(t) ==
    /\ NextTask(t)
    /\ \E onProgress \in BOOLEAN :
          tasks' = [tasks EXCEPT ![t] =
                       getFFmpegEntry([NoTask EXCEPT !.op = "processVideo",
                                                     !.inputFile = ClipFile,
                                                     !.onProgress = onProgress])]
    /\ UNCHANGED <<ffmpeg, isLoaded, engines, progress>>
    /\ backendFrame

\* the bytes of the input are in: ffmpeg.writeFile('input.mp4', inputData)
ProcessWrite(t) ==
    /\ tasks[t].op = "processVideo"
    /\ tasks[t].pc = "arrayBuffer"
    /\ LET h == tasks[t].handle
           name == <<"input", "mp4">>
       IN  IF Usable(h)
           THEN /\ engines' = [engines EXCEPT ![h].files = WriteFile(@, name, t)]
                /\ tasks' = [tasks EXCEPT ![t].pc = "written", ![t].inputName = name]
           ELSE /\ tasks' = [tasks EXCEPT ![t] = Rejected(@, "engine not loaded")]
                /\ UNCHANGED engines
    /\ UNCHANGED <<ffmpeg, isLoaded, progress>>
    /\ backendFrame

\* ffmpeg.on('progress', ...) adds a listener to the FFmpeg object
On(listeners, t, onProgress) == IF onProgress THEN listeners \cup {t} ELSE listeners

\* the write is done: the commands are built, the progress listener is
\* attached when onProgress was given, and ffmpeg.exec(commands) is called
ProcessExec(t) ==
    /\ tasks[t].op = "processVideo"
    /\ tasks[t].pc = "written"
    /\ LET h == tasks[t].handle
           name == <<"output", "mp4">>
       IN  IF Usable(h)
           THEN /\ engines' = [engines EXCEPT
                       ![h].listeners = On(@, t, tasks[t].onProgress),
                       ![h].files = Exec(@, tasks[t].inputName, name)]
                /\ tasks' = [tasks EXCEPT ![t].pc = "exec", ![t].outputName = name]
           ELSE /\ tasks' = [tasks EXCEPT ![t] = Rejected(@, "engine not loaded")]
                /\ engines' = IF h # 0
                              THEN [engines EXCEPT ![h].listeners = On(@, t, tasks[t].onProgress)]
                              ELSE engines
    /\ UNCHANGED <<ffmpeg, isLoaded, progress>>
    /\ backendFrame

\* the command is done: ffmpeg.readFile('output.mp4') and the Blob made of it
ProcessRead(t) ==
    /\ tasks[t].op = "processVideo"
    /\ tasks[t].pc = "exec"
    /\ LET h == tasks[t].handle
       IN  IF Usable(h) /\ FileAt(engines[h].files, tasks[t].outputName) # {}
           THEN LET data == CHOOSE f \in FileAt(engines[h].files, tasks[t].outputName) : TRUE
                IN  tasks' = [tasks EXCEPT
                        ![t].pc = "done", ![t].state = "fulfilled", ![t].data = data.from,
                        ![t].blob = [from |-> data.from, type |-> <<"video", "mp4">>]]
           ELSE tasks' = [tasks EXCEPT ![t] = Rejected(@, "engine not loaded")]
    /\ UNCHANGED <<ffmpeg, isLoaded, engines, progress>>
    /\ backendFrame

\* the engine reports the progress of the command of call t while it runs:
\* every listener attached to the object is called.  One report is
\* followed for each command.
ProgressEvent(t) ==
    /\ tasks[t].pc = "exec"
    /\ Usable(tasks[t].handle)
    /\ \A p \in progress : p.source # t
    /\ progress' = progress \cup
           { [source |-> t, callbacks |-> engines[tasks[t].handle].listeners] }
    /\ UNCHANGED <<ffmpeg, isLoaded, engines, tasks>>
    /\ backendFrame

BackendInit ==
    /\ EngineIdle
    /\ HomeIdle
    /\ rin = NoResolverCall
    /\ rout = NoResolverResult
    /\ window = WindowApis
    /\ options = [inputFile |-> ClipFile]
    /\ opc = "start"
    /\ SingleCall
    /\ PipelineInit

BackendNext ==
    \/ \E t \in TaskIds : getFFmpeg(t)
    \/ \E t \in TaskIds : FFmpegImported(t)
    \/ \E t \in TaskIds : FFmpegLoadCalled(t)
    \/ \E t \in TaskIds : FFmpegLoaded(t)
    \/ \E t \in TaskIds : FFmpegLoadFailed(t)
    \/ unloadFFmpeg
    \/ \E t \in TaskIds : convertFile(t)
    \/ \E t \in TaskIds : ConvertWrite(t)
    \/ \E t \in TaskIds : ConvertExec(t)
    \/ \E t \in TaskIds : ConvertRead(t)
    \/ \E t \in TaskIds : processVideo(t)
    \/ \E t \in TaskIds : ProcessWrite(t)
    \/ \E t \in TaskIds : ProcessExec(t)
    \/ \E t \in TaskIds : ProcessRead(t)
    \/ \E t \in TaskIds : ProgressEvent(t)

BackendSpec == BackendInit /\ [][BackendNext]_vars

(***************************************************************************)
(* The page (component Home).  Its state is the useState cells; every      *)
(* handler runs to completion and the page is rendered again before the    *)
(* next event, so a control is usable exactly when the last state enables  *)
(* it.  A converter call is followed from the click to the moment its      *)
(* promise settles; what it settles with is drawn from what the converter  *)
(* can return or throw for its arguments.  A result is written with the    *)
(* name of the file it was made from.  The state starts after the mount    *)
(* effect (isClient is true).                                              *)
(***************************************************************************)
UiFiles == { f \in InputFiles : f.isFile /\ f.name[1] \in {"clip", "song", "movie", "README"} }

\* file.type.split('/')[0]
TypeMajor(file) == IF file.type = <<>> THEN "" ELSE file.type[1]

\* getSupportedFormats(fileType) of lib/format-converter.ts
getSupportedFormats(kind) ==
    CASE kind = "video" -> <<"mp4", "webm", "avi", "mov">>
      [] kind = "audio" -> <<"mp3", "wav", "aac", "ogg">>
      [] kind = "image" -> <<"jpeg", "png", "webp", "gif">>
      [] OTHER -> <<>>

\* getWebCodecsSupportedFormats(fileType) of lib/webcodecs-converter.ts
getWebCodecsSupportedFormats(kind) ==
    CASE kind = "video" -> <<"mp4", "webm">>
      [] kind = "audio" -> <<"aac", "wav">>
      [] kind = "image" -> <<"jpeg", "png", "webp">>
      [] OTHER -> <<>>

\* useWebCodecs ? getWebCodecsSupportedFormats(fileType) : getSupportedFormats(fileType)
SupportedFormats(useWebCodecs, file) ==
    IF useWebCodecs THEN getWebCodecsSupportedFormats(TypeMajor(file))
    ELSE getSupportedFormats(TypeMajor(file))

\* getSupportedFormatsForFile(): the options of the format select
getSupportedFormatsForFile ==
    IF home.selectedFile = NoFile THEN <<>>
    ELSE SupportedFormats(home.useWebCodecs, home.selectedFile)

Range(seq) == { seq[i] : i \in DOMAIN seq }

\* a file is chosen or dropped
handleFileSelect(file) ==
    /\ LET supportedFormats == SupportedFormats(home.useWebCodecs, file)
       IN  home' = [home EXCEPT
                       !.selectedFile = file,
                       !.conversionResult = NoResult,
                       !.error = "",
                       !.targetFormat = IF Len(supportedFormats) > 0
                                        THEN supportedFormats[1] ELSE @]
    /\ UNCHANGED conversions
    /\ UNCHANGED <<resolverVars, conversionVars, concurrentVars, engineVars>>

\* the format select, shown once a file is selected: onChange sets the
\* option the user picked
setTargetFormat(format) ==
    /\ home.selectedFile # NoFile
    /\ format \in Range(getSupportedFormatsForFile)
    /\ format # home.targetFormat
    /\ home' = [home EXCEPT !.targetFormat = format]
    /\ UNCHANGED conversions
    /\ UNCHANGED <<resolverVars, conversionVars, concurrentVars, engineVars>>

\* the two converter buttons; the WebCodecs one is disabled unless
\* webCodecsSupported
setUseWebCodecs(value) ==
    /\ value => isWebCodecsSupported(window)
    /\ value # home.useWebCodecs
    /\ home' = [home EXCEPT !.useWebCodecs = value]
    /\ UNCHANGED conversions
    /\ UNCHANGED <<resolverVars, conversionVars, concurrentVars, engineVars>>

\* the Convert File button is disabled when
\* !selectedFile || !targetFormat || isConverting
ConvertEnabled ==
    /\ home.selectedFile # NoFile
    /\ home.targetFormat # ""
    /\ ~home.isConverting

\* handleConvert up to the await: the flags, then the call of the converter
\* the page is set to
handleConvert ==
    /\ ConvertEnabled
    /\ home' = [home EXCEPT !.isConverting = TRUE, !.error = ""]
    /\ conversions' = Append(conversions,
           [useWebCodecs |-> home.useWebCodecs, inputFile |-> home.selectedFile,
            targetFormat |-> home.targetFormat])
    /\ UNCHANGED <<resolverVars, conversionVars, concurrentVars, engineVars>>

Thrown(message) == [ok |-> FALSE, isError |-> TRUE, message |-> message, result |-> NoResult]

\* the ConversionResult both converters build: file, filename, originalSize,
\* format
ConversionResultOf(inputFile, format, mime) ==
    [ok |-> TRUE, isError |-> FALSE, message |-> "",
     result |-> [file |-> [source |-> inputFile.name, type |-> mime],
                 filename |-> generateOutputFilename(inputFile, format),
                 originalSize |-> inputFile.size,
                 format |-> format]]

\* what a converter call can settle with: convertFileWithWebCodecs throws
\* its own Errors and wraps those of a pipeline; convertFile throws its own
\* Errors, and the engine rejects with a value that is no Error
ConverterOutcomes(call, win) ==
    IF call.useWebCodecs
    THEN IF ~isWebCodecsSupported(win)
         THEN { Thrown("WebCodecs is not supported in this browser. Please use a modern browser or enable experimental features.") }
         ELSE IF detectFileType(call.inputFile) = "unknown"
         THEN { Thrown("Unsupported file type") }
         ELSE { ConversionResultOf(call.inputFile, call.targetFormat,
                                   getMimeType(call.targetFormat)),
                Thrown("Conversion failed: cause") }
    ELSE IF FFmpegDetectFileType(call.inputFile) = "unknown"
         THEN { Thrown("Unsupported file type") }
         ELSE { ConversionResultOf(call.inputFile, call.targetFormat,
                                   FFmpegMimeType(call.targetFormat)),
                Thrown("Failed to initialize video processing engine"),
                [Thrown("engine") EXCEPT !.isError = FALSE] }

\* a handler that clears the flag only after a result
AfterSettleNoFinally(h, outcome) ==
    IF outcome.ok
    THEN [h EXCEPT !.conversionResult = outcome.result, !.isConverting = FALSE]
    ELSE [h EXCEPT !.error = IF outcome.isError THEN outcome.message
                             ELSE "Conversion failed"]

\* setConversionResult(result) | catch: setError(err instanceof Error ?
\* err.message : 'Conversion failed') | finally: setIsConverting(false)
AfterSettle(h, outcome) ==
    IF outcome.ok
    THEN [h EXCEPT !.conversionResult = outcome.result, !.isConverting = FALSE]
    ELSE [h EXCEPT !.error = IF outcome.isError THEN outcome.message
                             ELSE "Conversion failed",
                   !.isConverting = FALSE]

\* the promise of converter call i settles and handleConvert resumes
handleConvertSettled(i) ==
    /\ i \in DOMAIN conversions
    /\ \E outcome \in ConverterOutcomes(conversions[i], window) :
          home' = AfterSettle(home, outcome)
    /\ conversions' = SubSeq(conversions, 1, i - 1)
                          \o SubSeq(conversions, i + 1, Len(conversions))
    /\ UNCHANGED <<resolverVars, conversionVars, concurrentVars, engineVars>>

HomeInit ==
    /\ HomeIdle
    /\ EngineIdle
    /\ rin = NoResolverCall
    /\ rout = NoResolverResult
    /\ window \in {WindowApis, {}}
    /\ options = [inputFile |-> ClipFile]
    /\ opc = "start"
    /\ SingleCall
    /\ PipelineInit

HomeNext ==
    \/ \E file \in UiFiles : handleFileSelect(file)
    \/ \E format \in Range(getSupportedFormatsForFile) : setTargetFormat(format)
    \/ \E value \in BOOLEAN : setUseWebCodecs(value)
    \/ handleConvert
    \/ \E i \in DOMAIN conversions : handleConvertSettled(i)

HomeSpec == HomeInit /\ [][HomeNext]_vars

\* the scheduler runs every continuation that is ready
FairBackendSpec == BackendSpec /\ WF_vars(BackendNext)

(***************************************************************************)
(* Properties of the command-string backend.                               *)
(***************************************************************************)
\* the step in which the getFFmpeg of call t returns a handle
getFFmpegReturns(t) ==
    /\ tasks[t].pc \in {"idle", "load"}
    /\ \/ tasks'[t].pc = "arrayBuffer"
       \/ tasks'[t].op = "getFFmpeg" /\ tasks'[t].state = "fulfilled"

\* C33: whenever getFFmpeg returns, what it returns is an engine whose load
\* has completed successfully, whatever the interleaving of the concurrent
\* getFFmpeg and unloadFFmpeg calls.
C33_ReturnsLoadedEngine ==
    [][\A t \in TaskIds :
          getFFmpegReturns(t) =>
              /\ tasks'[t].handle # 0
              /\ engines'[tasks'[t].handle].state = "loaded"]_vars

\* C34: while isLoaded is true the cached handle is not null and the engine
\* it names has not been terminated.
C34_LoadedFlagHasEngine ==
    isLoaded => ffmpeg # 0 /\ engines[ffmpeg].state # "terminated"

\* C35: the artifact convertFile returns was made from the input of that
\* same call, also when two calls interleave.
C35_ArtifactFromOwnInput ==
    \A t \in TaskIds :
        (tasks[t].op = "convertFile" /\ tasks[t].state = "fulfilled") =>
            tasks[t].blob.from = t

\* C36: a progress report of the command of one processVideo call invokes no
\* callback but the one passed to that call, so at most one.
C36_OwnProgressOnly ==
    \A p \in progress : p.callbacks \subseteq {p.source}

(***************************************************************************)
(* Properties of the page.                                                 *)
(***************************************************************************)
\* C37: the conversion result the page holds was made from the file that is
\* selected now, whatever the order of file selections and of the settling
\* of a conversion in flight.
C37_ResultOfSelectedFile ==
    home.conversionResult # NoResult =>
        home.conversionResult.file.source = home.selectedFile.name

\* C38: the target format handed to a converter is one of the formats the
\* converter in use supports for the kind of the selected file.
C38_TargetFormatSupported ==
    \A i \in DOMAIN conversions :
        conversions[i].targetFormat \in
            Range(SupportedFormats(conversions[i].useWebCodecs, conversions[i].inputFile))

\* C39: isConverting is true exactly while a converter call is pending (it
\* is set in the step that makes the call), and the step in which a call
\* settles leaves it false with a result or a non-empty error recorded.
C39_ConvertingWhilePending ==
    /\ [](home.isConverting <=> conversions # <<>>)
    /\ [][Len(conversions') < Len(conversions) =>
             /\ ~home'.isConverting
             /\ home'.conversionResult # NoResult \/ home'.error # ""]_vars

\* a conversion was started and has failed: the flag is down and the error
\* is shown
C39_Witness ==
    /\ ~home.isConverting
    /\ conversions = <<>>
    /\ home.error = "Conversion failed"

====
